---- MODULE Spec2Model ----
(***************************************************************************)
(* A model of the pass-authorizing storage server of ZKAPAuthorizer        *)
(* (src/src/_zkapauthorizer/_storage_server.py): the gate that sits in     *)
(* front of a Tahoe-LAFS storage server, validates the passes supplied     *)
(* with a call and either forwards the call to the wrapped server or       *)
(* raises MorePassesRequired.                                              *)
(***************************************************************************)
EXTENDS Integers, Sequences, FiniteSets, TLC

(***************************************************************************)
(* Bounds of the model.                                                    *)
(***************************************************************************)
\* The longest list of passes a call carries.
MaxPasses == 2
\* The largest allocated_size of an immutable allocation.
MaxSize == 4
\* The last instant of the injected clock.
MaxTime == 1
\* The most parts (pieces between delimiters) of the bytes of a pass.
MaxParts == 3

\* The storage indexes the calls name.
StorageIndexes == {"si1", "si2"}
\* The share numbers the calls name.
Sharenums == {0, 1}
\* The write fragments (offset, length of the data string) of a mutable write.
Fragments ==
    {[offset |-> 0, len |-> 0], [offset |-> 0, len |-> 2],
     [offset |-> 1, len |-> 2]}

(***************************************************************************)
(* Values imported from storage_common.py, which is not among the sources: *)
(* modelled from the specification.                                        *)
(***************************************************************************)
\* One pass pays for this many bytes (scaled: the deployed value is 10^6).
BYTES_PER_PASS == 2
\* How long a lease created by the wrapped server lasts, in clock units.
LeaseDuration == 1

\* ceil(a / b) for a >= 0, b > 0.
Ceil(a, b) == (a + b - 1) \div b

Max(S) == CHOOSE x \in S : \A y \in S : y <= x

\* Faulty variant: a started unit of bytes_per_pass is not charged for.
required_passes_floor(bytes_per_pass, sharenums, allocated_size) ==
    Max({allocated_size, 0}) \div bytes_per_pass

\* required_passes: ceil(max(size, 0) / bytes_per_pass); the number of
\* shares does not multiply the cost.
required_passes(bytes_per_pass, sharenums, allocated_size) ==
    Ceil(Max({allocated_size, 0}), bytes_per_pass)

\* The binding messages: one per (operation kind, storage index).
allocate_buckets_message(storage_index) ==
    <<"allocate_buckets", storage_index>>
add_lease_message(storage_index) ==
    <<"add_lease", storage_index>>
renew_lease_message(storage_index) ==
    <<"renew_lease", storage_index>>
slot_testv_and_readv_and_writev_message(storage_index) ==
    <<"slot_testv_and_readv_and_writev", storage_index>>

\* has_writes: the write vectors contain an actual write, that is, some
\* share has a non-empty data vector.
has_writes(tw_vectors) ==
    \E sharenum \in DOMAIN tw_vectors : tw_vectors[sharenum] # <<>>

(***************************************************************************)
(* Passes.  The wire form of a pass is base64(preimage) + " " +            *)
(* base64(signature); a pass is modelled by the list of parts that         *)
(* splitting its bytes on " " gives.  A part is the base64 text of a token *)
(* preimage, the base64 text of a signature, or text that is not base64.   *)
(* A signature records what it was made from: the signing key the token    *)
(* was issued under, the token, and the message that was signed.           *)
(***************************************************************************)
\* The key of this server, and the key of some other issuer.
SigningKey == "server_key"
OtherKey == "other_key"

Kinds == {"allocate_buckets", "add_lease", "renew_lease",
          "slot_testv_and_readv_and_writev"}
Messages == Kinds \X StorageIndexes

PreimagePart(tok) == [type |-> "preimage", tok |-> tok]
SignaturePart(key, tok, msg) ==
    [type |-> "signature", key |-> key, tok |-> tok, msg |-> msg]
JunkPart == [type |-> "junk"]

\* The pass a client derives from token tok, issued under key, for msg.
MakePass(key, tok, msg) == <<PreimagePart(tok), SignaturePart(key, tok, msg)>>

\* The passes the calls of the model are made with: one for an allocation
\* at si1, one for a mutable write at si1, one for a lease at si1, one
\* issued under another key, and one with no delimiter in it.
PassPool ==
    {MakePass(SigningKey, 1, <<"allocate_buckets", "si1">>),
     MakePass(SigningKey, 2, <<"slot_testv_and_readv_and_writev", "si1">>),
     MakePass(SigningKey, 3, <<"add_lease", "si1">>),
     MakePass(OtherKey, 4, <<"allocate_buckets", "si1">>),
     <<PreimagePart(5)>>}

\* All lists over S of length at most n.
SeqUpTo(S, n) == UNION {[1..k -> S] : k \in 0..n}

PassLists == SeqUpTo(PassPool, MaxPasses)

(***************************************************************************)
(* The state.                                                              *)
(***************************************************************************)
VARIABLES
    now,      \* the injected clock: _clock.seconds()
    leases,   \* wrapped server: the expiration times of each slot's leases
    shares,   \* wrapped server: the storage indexes that hold shares
    last,     \* the call the gate has just answered: arguments and outcome
    spent,    \* history: the passes counted valid by earlier forwarded calls
    probe,    \* a single validity check: its arguments and its result
    inventory,  \* client: the state the token inventory holds each token in
    groups,     \* client: the PassGroup objects created so far
    lastop,     \* client: the spending call just made: arguments and outcome
    retired,    \* history: the tokens of groups marked spent or invalid
    calc,       \* a single application of a pure function: inputs and result
    _state,       \* recoverer: StatefulRecoverer._state
    invocations,  \* recoverer: the calls of recover made so far
    cursor,       \* recoverer: the statements executed on the cursor
    downloads,    \* history: how many times a downloader was called
    store,        \* payment references: the rows of the store
    added,        \* history: the numbers add has been called with, in order
    lastpay,      \* payment references: the call just made and its outcome
    buckets,      \* lease maintenance: each server's shares and their leases
    clock,        \* lease maintenance: the clock of the storage broker
    sweep         \* lease maintenance: the renewal just made and its outcome

\* The server's side and the client's side.
gate == <<now, leases, shares, last, spent, probe>>
spending == <<inventory, groups, lastop, retired>>

\* Everything that is neither the gate's nor the spending controller's.
recovery == <<_state, invocations, cursor, downloads>>
payments == <<store, added, lastpay>>
maintenance == <<buckets, clock, sweep>>
rest == <<calc, recovery, payments, maintenance>>

vars == <<now, leases, shares, last, spent, probe,
          inventory, groups, lastop, retired, calc,
          _state, invocations, cursor, downloads, store, added, lastpay,
          buckets, clock, sweep>>

(***************************************************************************)
(* Pass validation.                                                        *)
(***************************************************************************)
\* What the body of the try block of _is_invalid_pass does: it raises, or
\* it returns what invalid_sha512 answers (TRUE: the signature is invalid).
Raises == [raised |-> TRUE, value |-> TRUE]
Returns(v) == [raised |-> FALSE, value |-> v]

pass_check(signing_key, message, pass_) ==
    \* preimage_base64, signature_base64 = pass_.split(b" ")
    IF Len(pass_) # 2 THEN Raises
    \* TokenPreimage.decode_base64(preimage_base64)
    ELSE IF pass_[1].type # "preimage" THEN Raises
    \* VerificationSignature.decode_base64(signature_base64)
    ELSE IF pass_[2].type # "signature" THEN Raises
    \* The verification key rederived from the preimage under signing_key
    \* accepts only a signature made from the same preimage, under the
    \* same signing key, over the same message.
    ELSE Returns(~ (/\ pass_[2].tok = pass_[1].tok
                    /\ pass_[2].key = signing_key
                    /\ pass_[2].msg = message))

\* Faulty variant: the except clause answers False, "not invalid".
_is_invalid_pass_except_false(message, pass_) ==
    LET tried == pass_check(SigningKey, message, pass_)
    IN  IF tried.raised THEN Returns(FALSE) ELSE tried

\* TRUE if the pass is invalid.  An exception of the try block is caught
\* and answered with TRUE, so the method itself raises nothing.
_is_invalid_pass(message, pass_) ==
    LET tried == pass_check(SigningKey, message, pass_)
    IN  IF tried.raised THEN Returns(TRUE) ELSE tried

\* The elements of passes that are not invalid for message, in their order.
RECURSIVE SelectValid(_, _)
SelectValid(message, passes) ==
    IF passes = <<>> THEN <<>>
    ELSE IF ~ _is_invalid_pass(message, Head(passes)).value
         THEN <<Head(passes)>> \o SelectValid(message, Tail(passes))
         ELSE SelectValid(message, Tail(passes))

\* Faulty variant: every pass supplied is returned, valid or not.
_validate_passes_unfiltered(message, passes) == Returns(passes)

\* Faulty variant: the valid passes are returned last first.
_validate_passes_reversed(message, passes) ==
    LET valid == SelectValid(message, passes)
    IN  Returns([i \in 1..Len(valid) |-> valid[Len(valid) + 1 - i]])

\* The passes which are found to be valid.  An exception of a check of one
\* pass would end the whole validation.
_validate_passes(message, passes) ==
    IF \E i \in DOMAIN passes : _is_invalid_pass(message, passes[i]).raised
    THEN Raises
    ELSE Returns(SelectValid(message, passes))

(***************************************************************************)
(* Pass accounting.                                                        *)
(***************************************************************************)
\* A mutable write's test/write vectors map share numbers to data vectors,
\* lists of (offset, data) fragments; a fragment is modelled by its offset
\* and the length of its data.  A share with an empty data vector is one
\* the call does not write.  The test vector and new_length of a share are
\* not read by the gate.
DataVectors == SeqUpTo(Fragments, 1)
TWVectors == [Sharenums -> DataVectors]
NoVectors == [sharenum \in Sharenums |-> <<>>]

Range(f) == {f[x] : x \in DOMAIN f}

\* The share numbers which the test/write vectors would write to.
get_sharenums(tw_vectors) ==
    {sharenum \in DOMAIN tw_vectors : tw_vectors[sharenum] # <<>>}

\* Faulty variant: the shares with no data are not skipped, and max() of the
\* fragments of such a share raises ValueError.
get_allocated_size_unfiltered(tw_vectors) ==
    IF \E sharenum \in DOMAIN tw_vectors : tw_vectors[sharenum] = <<>>
    THEN Raises
    ELSE Returns(Max({Max({f.offset + f.len : f \in Range(tw_vectors[sharenum])}) :
                         sharenum \in DOMAIN tw_vectors}))

\* The sum of what f maps the elements of S to.
RECURSIVE SumOver(_, _)
SumOver(f, S) ==
    IF S = {} THEN 0
    ELSE LET x == CHOOSE y \in S : TRUE
         IN  f[x] + SumOver(f, S \ {x})

\* Faulty variant: the written shares are added up instead of compared.
get_allocated_size_summed(tw_vectors) ==
    LET written == get_sharenums(tw_vectors)
        size == [sharenum \in written |->
                    Max({f.offset + f.len : f \in Range(tw_vectors[sharenum])})]
    IN  IF written = {} THEN Raises ELSE Returns(SumOver(size, written))

\* The largest position the vectors write in any share.  max() of an empty
\* list raises ValueError.
get_allocated_size(tw_vectors) ==
    LET sizes == {Max({f.offset + f.len : f \in Range(tw_vectors[sharenum])}) :
                     sharenum \in get_sharenums(tw_vectors)}
    IN  IF sizes = {} THEN Raises ELSE Returns(Max(sizes))

\* Faulty variant: the comparison is the wrong way round.
has_active_lease_reversed(storage_leases, storage_index, t) ==
    \E expiration \in storage_leases[storage_index] : expiration < t

\* Faulty variant: a lease that expires at this very instant still counts.
has_active_lease_inclusive(storage_leases, storage_index, t) ==
    \E expiration \in storage_leases[storage_index] : expiration >= t

\* TRUE if and only if the storage index has a lease with an expiration
\* time after now.
has_active_lease(storage_leases, storage_index, t) ==
    \E expiration \in storage_leases[storage_index] : expiration > t

\* What a check raises: nothing, or MorePassesRequired(valid_count,
\* required_count), or another exception.
NoException == <<>>
MorePassesRequired(valid_count, required_count) ==
    <<"MorePassesRequired", valid_count, required_count>>
ValueError == <<"ValueError">>
\* Lines 101-106: defined, and raised nowhere in the module.
LeaseRenewalRequired == <<"LeaseRenewalRequired">>
ValidationError == <<"Exception">>

\* Faulty variant: every share is charged for.
check_pass_quantity_for_write_per_share(valid_count, sharenums, allocated_size) ==
    LET required_pass_count ==
            Cardinality(sharenums)
                * required_passes(BYTES_PER_PASS, sharenums, allocated_size)
    IN  IF valid_count < required_pass_count
        THEN MorePassesRequired(valid_count, required_pass_count)
        ELSE NoException

\* Faulty variant: the two counts of the exception are swapped.
check_pass_quantity_for_write_swapped(valid_count, sharenums, allocated_size) ==
    LET required_pass_count ==
            required_passes(BYTES_PER_PASS, sharenums, allocated_size)
    IN  IF valid_count < required_pass_count
        THEN MorePassesRequired(required_pass_count, valid_count)
        ELSE NoException

check_pass_quantity_for_write(valid_count, sharenums, allocated_size) ==
    LET required_pass_count ==
            required_passes(BYTES_PER_PASS, sharenums, allocated_size)
    IN  IF valid_count < required_pass_count
        THEN MorePassesRequired(valid_count, required_pass_count)
        ELSE NoException

\* Faulty variant: the size is that of the first written share, not the largest.
check_pass_quantity_for_mutable_write_first(valid_count, tw_vectors) ==
    LET sharenums == get_sharenums(tw_vectors)
        first == CHOOSE n \in sharenums : \A m \in sharenums : n <= m
    IN  IF sharenums = {} THEN ValueError
        ELSE check_pass_quantity_for_write(
                 valid_count, sharenums,
                 Max({f.offset + f.len : f \in Range(tw_vectors[first])}))

check_pass_quantity_for_mutable_write(valid_count, tw_vectors) ==
    LET sharenums == get_sharenums(tw_vectors)
        allocated_size == get_allocated_size(tw_vectors)
    IN  IF allocated_size.raised THEN ValueError
        ELSE check_pass_quantity_for_write(
                 valid_count, sharenums, allocated_size.value)

(***************************************************************************)
(* The wrapped storage server (_original), an external collaborator: what  *)
(* its methods do to the shares and leases it stores.                      *)
(***************************************************************************)
\* remote_allocate_buckets: the requested shares exist afterwards.
original_allocate_buckets(stored, storage_index, sharenums) ==
    IF sharenums = {} THEN stored ELSE stored \cup {storage_index}

\* slot_testv_and_readv_and_writev: the written shares exist afterwards.
original_write(stored, storage_index, tw_vectors) ==
    IF get_sharenums(tw_vectors) = {} THEN stored
    ELSE stored \cup {storage_index}

\* A lease added or renewed at time t expires LeaseDuration later.  A lease
\* belongs to its renew secret, and adding one for a secret that has a lease
\* renews that lease; the calls of the model are one client's.
original_add_lease(storage_leases, storage_index, t) ==
    [storage_leases EXCEPT ![storage_index] = {t + LeaseDuration}]

(***************************************************************************)
(* The record of a call: its arguments, what the gate did, and the calls   *)
(* it made on the wrapped server.  renew_secret, cancel_secret, canary,    *)
(* secrets and r_vector are handed on untouched and are left out.          *)
(***************************************************************************)
Forward(method, storage_index, sharenums, allocated_size, tw_vectors, renew_leases) ==
    [method |-> method, storage_index |-> storage_index,
     sharenums |-> sharenums, allocated_size |-> allocated_size,
     tw_vectors |-> tw_vectors, renew_leases |-> renew_leases]

Validation(message, valid_passes) ==
    [message |-> message, valid_passes |-> valid_passes]

NoCall ==
    [op |-> "none", passes |-> <<>>, storage_index |-> "si1",
     sharenums |-> {}, allocated_size |-> 0, tw_vectors |-> NoVectors,
     validations |-> <<>>, lease_checked |-> FALSE,
     raised |-> NoException, forwarded |-> <<>>]

(***************************************************************************)
(* The gate: ZKAPAuthorizerStorageServer.  In an action, what a call works *)
(* out once is bound once: \E checked \in {e} : A is A with e for checked. *)
(***************************************************************************)
\* Faulty variant: the passes are validated against the message of another kind.
allocate_buckets_check_add_lease(passes, storage_index, sharenums, allocated_size) ==
    LET message == add_lease_message(storage_index)
        valid_passes == _validate_passes(message, passes)
    IN  IF valid_passes.raised
        THEN [validations |-> <<>>, raised |-> ValidationError]
        ELSE [validations |-> <<Validation(message, valid_passes.value)>>,
              raised |-> check_pass_quantity_for_write(
                             Len(valid_passes.value), sharenums,
                             allocated_size)]

\* Lines 178-182: validate, then check the quantity.
allocate_buckets_check(passes, storage_index, sharenums, allocated_size) ==
    LET message == allocate_buckets_message(storage_index)
        valid_passes == _validate_passes(message, passes)
    IN  IF valid_passes.raised
        THEN [validations |-> <<>>, raised |-> ValidationError]
        ELSE [validations |-> <<Validation(message, valid_passes.value)>>,
              raised |-> check_pass_quantity_for_write(
                             Len(valid_passes.value), sharenums,
                             allocated_size)]

remote_allocate_buckets(passes, storage_index, sharenums, allocated_size) ==
    \E checked \in {allocate_buckets_check(
                         passes, storage_index, sharenums, allocated_size)} :
    LET go == checked.raised = NoException
    IN  /\ last' = [op |-> "remote_allocate_buckets", passes |-> passes,
                    storage_index |-> storage_index,
                    sharenums |-> sharenums,
                    allocated_size |-> allocated_size,
                    tw_vectors |-> NoVectors,
                    validations |-> checked.validations,
                    lease_checked |-> FALSE,
                    raised |-> checked.raised,
                    forwarded |->
                        IF go
                        THEN <<Forward("remote_allocate_buckets",
                                       storage_index, sharenums,
                                       allocated_size, NoVectors, FALSE)>>
                        ELSE <<>>]
        /\ shares' = IF go
                     THEN original_allocate_buckets(
                              shares, storage_index, sharenums)
                     ELSE shares
        /\ UNCHANGED <<now, leases, spent, probe, spending, rest>>

\* Line 205: the passes are validated; what is found is not looked at.
add_lease_check(passes, storage_index) ==
    LET message == add_lease_message(storage_index)
        valid_passes == _validate_passes(message, passes)
    IN  IF valid_passes.raised
        THEN [validations |-> <<>>, raised |-> ValidationError]
        ELSE [validations |-> <<Validation(message, valid_passes.value)>>,
              raised |-> NoException]

\* Line 213.
renew_lease_check(passes, storage_index) ==
    LET message == renew_lease_message(storage_index)
        valid_passes == _validate_passes(message, passes)
    IN  IF valid_passes.raised
        THEN [validations |-> <<>>, raised |-> ValidationError]
        ELSE [validations |-> <<Validation(message, valid_passes.value)>>,
              raised |-> NoException]

\* What remote_add_lease and remote_renew_lease do once the check is made.
LeaseCall(op, checked, passes, storage_index) ==
    LET go == checked.raised = NoException
    IN  /\ last' = [op |-> op, passes |-> passes,
                    storage_index |-> storage_index,
                    sharenums |-> {}, allocated_size |-> 0,
                    tw_vectors |-> NoVectors,
                    validations |-> checked.validations,
                    lease_checked |-> FALSE,
                    raised |-> checked.raised,
                    forwarded |->
                        IF go
                        THEN <<Forward(op, storage_index, {}, 0,
                                       NoVectors, FALSE)>>
                        ELSE <<>>]
        /\ leases' = IF go
                     THEN original_add_lease(leases, storage_index, now)
                     ELSE leases
        /\ UNCHANGED <<now, shares, spent, probe, spending, rest>>

remote_add_lease(passes, storage_index) ==
    \E checked \in {add_lease_check(passes, storage_index)} :
        LeaseCall("remote_add_lease", checked, passes, storage_index)

remote_renew_lease(passes, storage_index) ==
    \E checked \in {renew_lease_check(passes, storage_index)} :
        LeaseCall("remote_renew_lease", checked, passes, storage_index)

\* What the gate decides once a write is found to need passes.
SlotPaid(passes, storage_index, tw_vectors, renew_leases) ==
    LET message == slot_testv_and_readv_and_writev_message(storage_index)
        valid_passes == _validate_passes(message, passes)
    IN  IF valid_passes.raised
        THEN [validations |-> <<>>, lease_checked |-> TRUE,
              raised |-> ValidationError, renew_leases |-> FALSE]
        ELSE [validations |-> <<Validation(message, valid_passes.value)>>,
              lease_checked |-> TRUE,
              raised |-> check_pass_quantity_for_mutable_write(
                             Len(valid_passes.value), tw_vectors),
              renew_leases |-> renew_leases]

\* Faulty variant: renew_leases is never set to True.
slot_testv_and_readv_and_writev_check_no_renew(passes, storage_index, tw_vectors, storage_leases, t) ==
    IF has_writes(tw_vectors)
    THEN IF ~ has_active_lease(storage_leases, storage_index, t)
         THEN SlotPaid(passes, storage_index, tw_vectors, FALSE)
         ELSE [validations |-> <<>>, lease_checked |-> TRUE,
               raised |-> NoException, renew_leases |-> FALSE]
    ELSE [validations |-> <<>>, lease_checked |-> FALSE,
          raised |-> NoException, renew_leases |-> FALSE]

\* Faulty variant: the lease is looked up whether or not there are writes.
slot_testv_and_readv_and_writev_check_always(passes, storage_index, tw_vectors, storage_leases, t) ==
    IF ~ has_active_lease(storage_leases, storage_index, t)
    THEN SlotPaid(passes, storage_index, tw_vectors, TRUE)
    ELSE [validations |-> <<>>, lease_checked |-> TRUE,
          raised |-> NoException, renew_leases |-> FALSE]

\* Faulty variant: the passes are checked without asking for writes first.
slot_testv_and_readv_and_writev_check_unasked(passes, storage_index, tw_vectors, storage_leases, t) ==
    IF ~ has_active_lease(storage_leases, storage_index, t)
    THEN SlotPaid(passes, storage_index, tw_vectors, TRUE)
    ELSE [validations |-> <<>>, lease_checked |-> FALSE,
          raised |-> NoException, renew_leases |-> FALSE]

\* Lines 239-257: what the gate decides about a mutable write, given the
\* leases of the wrapped server and the time of the clock.
slot_testv_and_readv_and_writev_check(passes, storage_index, tw_vectors, storage_leases, t) ==
    IF has_writes(tw_vectors)
    THEN IF ~ has_active_lease(storage_leases, storage_index, t)
         THEN SlotPaid(passes, storage_index, tw_vectors, TRUE)
         ELSE [validations |-> <<>>, lease_checked |-> TRUE,
               raised |-> NoException, renew_leases |-> FALSE]
    ELSE [validations |-> <<>>, lease_checked |-> FALSE,
          raised |-> NoException, renew_leases |-> FALSE]

remote_slot_testv_and_readv_and_writev(passes, storage_index, tw_vectors) ==
    \E checked \in {slot_testv_and_readv_and_writev_check(
                         passes, storage_index, tw_vectors, leases, now)} :
    LET go == checked.raised = NoException
    IN  /\ last' = [op |-> "remote_slot_testv_and_readv_and_writev",
                    passes |-> passes, storage_index |-> storage_index,
                    sharenums |-> {}, allocated_size |-> 0,
                    tw_vectors |-> tw_vectors,
                    validations |-> checked.validations,
                    lease_checked |-> checked.lease_checked,
                    raised |-> checked.raised,
                    forwarded |->
                        IF go
                        THEN <<Forward("slot_testv_and_readv_and_writev",
                                       storage_index, {}, 0, tw_vectors,
                                       checked.renew_leases)>>
                        ELSE <<>>]
        /\ shares' = IF go
                     THEN original_write(shares, storage_index, tw_vectors)
                     ELSE shares
        /\ leases' = IF go /\ checked.renew_leases
                     THEN original_add_lease(leases, storage_index, now)
                     ELSE leases
        /\ UNCHANGED <<now, spent, probe, spending, rest>>

\* A call the gate hands on without looking at it: no pass is taken or
\* validated and no lease is looked up.  The wrapped server's reads and its
\* corruption advisories change neither shares nor leases.
PassThrough(op, forward) ==
    /\ last' = [op |-> op, passes |-> <<>>,
                storage_index |-> forward.storage_index,
                sharenums |-> forward.sharenums, allocated_size |-> 0,
                tw_vectors |-> NoVectors, validations |-> <<>>,
                lease_checked |-> FALSE, raised |-> NoException,
                forwarded |-> <<forward>>]
    /\ UNCHANGED <<now, leases, shares, spent, probe, spending, rest>>

\* Lines 166-171.
remote_get_version ==
    PassThrough("remote_get_version",
                Forward("get_version", "si1", {}, 0, NoVectors, FALSE))

\* Faulty variant: reading a bucket is charged for like an allocation of
\* one byte.
remote_get_buckets_charged(storage_index) ==
    /\ last' = [op |-> "remote_get_buckets", passes |-> <<>>,
                storage_index |-> storage_index,
                sharenums |-> {}, allocated_size |-> 0,
                tw_vectors |-> NoVectors, validations |-> <<>>,
                lease_checked |-> FALSE,
                raised |-> check_pass_quantity_for_write(0, {}, 1),
                forwarded |-> <<>>]
    /\ UNCHANGED <<now, leases, shares, spent, probe, spending, rest>>

\* Lines 193-198.
remote_get_buckets(storage_index) ==
    PassThrough("remote_get_buckets",
                Forward("get_buckets", storage_index, {}, 0, NoVectors, FALSE))

\* Lines 216-221: *a is share_type, storage_index, shnum, reason; the share
\* number is kept in sharenums.
remote_advise_corrupt_share(storage_index, shnum) ==
    PassThrough("remote_advise_corrupt_share",
                Forward("advise_corrupt_share", storage_index, {shnum}, 0,
                        NoVectors, FALSE))

\* Lines 272-277: *a is storage_index, shares, readv.
remote_slot_readv(storage_index, sharenums) ==
    PassThrough("remote_slot_readv",
                Forward("slot_readv", storage_index, sharenums, 0, NoVectors,
                        FALSE))

\* The reactor's clock advances.
Tick ==
    /\ last = NoCall
    /\ now < MaxTime
    /\ now' = now + 1
    /\ UNCHANGED <<leases, shares, last, spent, probe, spending, rest>>

\* The passes a call counted valid.
Counted(call) ==
    UNION {Range(v.valid_passes) : v \in Range(call.validations)}

\* The answer to the call has been sent; the gate keeps nothing of it.
Return ==
    /\ last # NoCall
    /\ last' = NoCall
    /\ UNCHANGED <<now, leases, shares, spent, probe, spending, rest>>

\* The same, with the passes of a forwarded call added to the history.
ReturnAndRecord ==
    /\ last # NoCall
    /\ last' = NoCall
    /\ spent' = IF last.forwarded # <<>>
                THEN spent \cup Counted(last)
                ELSE spent
    /\ UNCHANGED <<now, leases, shares, probe, spending, rest>>

\* The pass bytes a validity check is tried on: every list of at most
\* MaxParts parts, the parts being preimages, signatures and text that is
\* not base64.
ProbeTokens == {1, 2}
ProbeMessages ==
    {<<"allocate_buckets", "si1">>, <<"allocate_buckets", "si2">>,
     <<"add_lease", "si1">>}
Parts ==
    {PreimagePart(tok) : tok \in ProbeTokens}
    \cup {SignaturePart(key, tok, msg) :
             key \in {SigningKey, OtherKey}, tok \in ProbeTokens,
             msg \in ProbeMessages}
    \cup {JunkPart}
ProbePasses == SeqUpTo(Parts, MaxParts) \ {<<>>}

NoProbe ==
    [message |-> <<"none", "none">>, pass_ |-> <<>>, result |-> Raises]

\* One call of _is_invalid_pass.
IsInvalidPass ==
    /\ probe = NoProbe
    /\ \E message \in Messages, pass_ \in ProbePasses :
           probe' = [message |-> message, pass_ |-> pass_,
                     result |-> _is_invalid_pass(message, pass_)]
    /\ UNCHANGED <<now, leases, shares, last, spent, spending, rest>>

ProbeDone ==
    /\ probe # NoProbe
    /\ probe' = NoProbe
    /\ UNCHANGED <<now, leases, shares, last, spent, spending, rest>>

(***************************************************************************)
(* The client's side (src/src/_zkapauthorizer/spending.py): the            *)
(* SpendingController draws unblinded tokens from the token inventory and  *)
(* hands them out, as passes, in PassGroups; a PassGroup reports what      *)
(* became of its tokens back through the controller.                       *)
(***************************************************************************)
\* The number of unblinded tokens the inventory starts with.
MaxTokens == 3
\* A call that creates PassGroup objects is made while fewer than this many
\* exist.
MaxGroups == 2
\* The most terminal calls (mark_spent, mark_invalid, reset) made in all.
MaxTerminalCalls == 2

Tokens == 1..MaxTokens
\* The request-binding messages passes are asked for.
SpendMessages == {allocate_buckets_message("si1"), add_lease_message("si1")}
\* The reasons tokens are reported invalid for.
Reasons == {"signature check failed"}
\* The select_indices of a split: positions counted from zero; MaxTokens is
\* beyond the end of every group of at most MaxTokens tokens.
SelectIndices == {{}, {0}, {0, 2}, {1, MaxTokens}}

InsufficientTokens == <<"InsufficientTokens">>

(***************************************************************************)
(* The token inventory (VoucherStore of model.py, which is not among the   *)
(* sources): modelled from the specification.  A token is "available",     *)
(* "in-use" (handed out and not yet reported on), "spent" or "invalid".    *)
(***************************************************************************)
Min(S) == CHOOSE x \in S : \A y \in S : x <= y

Available(inv) == {unblinded_token \in Tokens : inv[unblinded_token] = "available"}

\* The first count elements of a set of tokens, in the inventory's order.
RECURSIVE First(_, _)
First(S, count) ==
    IF count = 0 \/ S = {} THEN <<>>
    ELSE <<Min(S)>> \o First(S \ {Min(S)}, count - 1)

\* get(n): the first n available tokens, which are not available
\* afterwards; fails if fewer than n are available.
get_unblinded_tokens(inv, count) ==
    IF Cardinality(Available(inv)) < count
    THEN [raised |-> InsufficientTokens, value |-> <<>>, inventory |-> inv]
    ELSE LET tokens == First(Available(inv), count)
         IN  [raised |-> NoException, value |-> tokens,
              inventory |-> [unblinded_token \in Tokens |->
                                IF unblinded_token \in Range(tokens)
                                THEN "in-use" ELSE inv[unblinded_token]]]

\* Faulty variant: a token that is not in use makes the report fail.
discard_unblinded_tokens_strict(inv, unblinded_tokens) ==
    IF \E unblinded_token \in Range(unblinded_tokens) : inv[unblinded_token] # "in-use"
    THEN [raised |-> <<"KeyError">>, inventory |-> inv]
    ELSE [raised |-> NoException,
          inventory |-> [unblinded_token \in Tokens |->
                            IF unblinded_token \in Range(unblinded_tokens)
                            THEN "spent" ELSE inv[unblinded_token]]]

\* discard: the tokens are spent and are never available again.  A token
\* already spent or invalid is left as it is.
discard_unblinded_tokens(inv, unblinded_tokens) ==
    [raised |-> NoException,
     inventory |-> [unblinded_token \in Tokens |->
                       IF /\ unblinded_token \in Range(unblinded_tokens)
                          /\ inv[unblinded_token] \in {"available", "in-use"}
                       THEN "spent" ELSE inv[unblinded_token]]]

\* invalidate: the tokens are invalid and are never available again.  A
\* token already spent or invalid is left as it is.
invalidate_unblinded_tokens(inv, reason, unblinded_tokens) ==
    [raised |-> NoException,
     inventory |-> [unblinded_token \in Tokens |->
                       IF /\ unblinded_token \in Range(unblinded_tokens)
                          /\ inv[unblinded_token] \in {"available", "in-use"}
                       THEN "invalid" ELSE inv[unblinded_token]]]

\* reset: the tokens handed out are available again.  A token already spent
\* or invalid, or already available, is left as it is.
reset_unblinded_tokens(inv, unblinded_tokens) ==
    [raised |-> NoException,
     inventory |-> [unblinded_token \in Tokens |->
                       IF /\ unblinded_token \in Range(unblinded_tokens)
                          /\ inv[unblinded_token] = "in-use"
                       THEN "available" ELSE inv[unblinded_token]]]

\* The injected conversion: the pass of each token for the message, in the
\* order of the tokens.
tokens_to_passes(message, unblinded_tokens) ==
    [i \in DOMAIN unblinded_tokens |->
        MakePass(SigningKey, unblinded_tokens[i], message)]

(***************************************************************************)
(* PassGroup.                                                              *)
(***************************************************************************)
\* Python's zip: pairs up to the end of the shorter list.
zip(xs, ys) ==
    [i \in 1..Min({Len(xs), Len(ys)}) |-> <<xs[i], ys[i]>>]

\* The attributes of a PassGroup.
PassGroup(message, factory, tokens) ==
    [message |-> message, factory |-> factory, tokens |-> tokens]

\* attr.evolve(self, tokens=...): a new PassGroup, the other attributes kept.
evolve(self, tokens) == [self EXCEPT !.tokens = tokens]

PassGroup_passes(self) ==
    [i \in DOMAIN self.tokens |-> self.tokens[i][2]]

PassGroup_unblinded_tokens(self) ==
    [i \in DOMAIN self.tokens |-> self.tokens[i][1]]

\* The elements of a list at the positions (counted from one) of keep, in
\* the order of the list.
RECURSIVE Subsequence(_, _)
Subsequence(xs, keep) ==
    IF xs = <<>> THEN <<>>
    ELSE LET front == Subsequence(SubSeq(xs, 1, Len(xs) - 1), keep)
         IN  IF Len(xs) \in keep THEN Append(front, xs[Len(xs)]) ELSE front

\* Faulty variant: the second group keeps every pair.
split_keeping_all(self, select_indices) ==
    <<evolve(self, Subsequence(self.tokens,
                 {p \in DOMAIN self.tokens : (p - 1) \in select_indices})),
      evolve(self, self.tokens)>>

\* Faulty variant: the positions are counted from one, not from zero.
split_from_one(self, select_indices) ==
    <<evolve(self, Subsequence(self.tokens,
                 {p \in DOMAIN self.tokens : p \in select_indices})),
      evolve(self, Subsequence(self.tokens,
                 {p \in DOMAIN self.tokens : p \notin select_indices}))>>

\* Lines 148-159: enumerate() counts from zero; position p of the model's
\* list is idx = p - 1.
split(self, select_indices) ==
    <<evolve(self, Subsequence(self.tokens,
                 {p \in DOMAIN self.tokens : (p - 1) \in select_indices})),
      evolve(self, Subsequence(self.tokens,
                 {p \in DOMAIN self.tokens : (p - 1) \notin select_indices}))>>

\* Faulty variant: the other group's pairs come first.
__add___swapped(self, other) ==
    evolve(self, zip(PassGroup_unblinded_tokens(other), PassGroup_passes(other))
                     \o self.tokens)

__add__(self, other) ==
    evolve(self, self.tokens
                     \o zip(PassGroup_unblinded_tokens(other), PassGroup_passes(other)))

(***************************************************************************)
(* SpendingController.  Each method is given the inventory as it is and    *)
(* answers with what it raised, what it returned and the inventory as it   *)
(* is left.  The events logged are left out.                                *)
(***************************************************************************)
\* Faulty variant: when the inventory is short, a group of the tokens that
\* are available is returned.
SpendingController_get_partial(inv, message, num_passes) ==
    LET got == get_unblinded_tokens(
                   inv, Min({num_passes, Cardinality(Available(inv))}))
    IN  [raised |-> NoException, drawn |-> got.value,
         value |-> <<PassGroup(message, "SpendingController",
                        zip(got.value, tokens_to_passes(message, got.value)))>>,
         inventory |-> got.inventory]

\* Lines 209-216, on a controller whose conversion returns one pass for
\* each token and for a message that decodes.  An exception of
\* get_unblinded_tokens ends the call.
SpendingController_get(inv, message, num_passes) ==
    LET got == get_unblinded_tokens(inv, num_passes)
    IN  IF got.raised # NoException
        THEN [raised |-> got.raised, drawn |-> <<>>, value |-> <<>>,
              inventory |-> got.inventory]
        ELSE [raised |-> NoException, drawn |-> got.value,
              value |-> <<PassGroup(message, "SpendingController",
                             zip(got.value, tokens_to_passes(message, got.value)))>>,
              inventory |-> got.inventory]

\* A report made to the inventory.
Report(method, reason, unblinded_tokens) ==
    [method |-> method, reason |-> reason, unblinded_tokens |-> unblinded_tokens]

Reported(method, reason, unblinded_tokens, outcome) ==
    [raised |-> outcome.raised, inventory |-> outcome.inventory,
     reports |-> <<Report(method, reason, unblinded_tokens)>>]

\* Faulty variant: the tokens are handed back to the inventory as unspent.
SpendingController_mark_spent_reset(inv, unblinded_tokens) ==
    Reported("reset_unblinded_tokens", "", unblinded_tokens,
             reset_unblinded_tokens(inv, unblinded_tokens))

SpendingController_mark_spent(inv, unblinded_tokens) ==
    Reported("discard_unblinded_tokens", "", unblinded_tokens,
             discard_unblinded_tokens(inv, unblinded_tokens))

SpendingController_mark_invalid(inv, reason, unblinded_tokens) ==
    Reported("invalidate_unblinded_tokens", reason, unblinded_tokens,
             invalidate_unblinded_tokens(inv, reason, unblinded_tokens))

\* Faulty variant: nothing is handed back to the inventory.
SpendingController_reset_dropped(inv, unblinded_tokens) ==
    [raised |-> NoException, inventory |-> inv, reports |-> <<>>]

SpendingController_reset(inv, unblinded_tokens) ==
    Reported("reset_unblinded_tokens", "", unblinded_tokens,
             reset_unblinded_tokens(inv, unblinded_tokens))

\* PassGroup.expand: self + self._factory.get(self._message, by_amount).
expand(inv, self, by_amount) ==
    LET got == SpendingController_get(inv, self.message, by_amount)
    IN  IF got.raised # NoException
        THEN got
        ELSE [got EXCEPT !.value = <<__add__(self, got.value[1])>>]

PassGroup_mark_spent(inv, self) ==
    SpendingController_mark_spent(inv, PassGroup_unblinded_tokens(self))

PassGroup_mark_invalid(inv, self, reason) ==
    SpendingController_mark_invalid(inv, reason, PassGroup_unblinded_tokens(self))

PassGroup_reset(inv, self) ==
    SpendingController_reset(inv, PassGroup_unblinded_tokens(self))

(***************************************************************************)
(* The spending calls.  groups lists the PassGroup objects in the order    *)
(* they were created; with the value of each are kept, as history, how     *)
(* many terminal calls were made on it, the groups it was derived from by  *)
(* split and expand, and the other group of the split that made it.        *)
(***************************************************************************)
Object(value, from, sibling) ==
    [value |-> value, terminal |-> 0, from |-> from, sibling |-> sibling]

NoOp ==
    [method |-> "none", group |-> 0, message |-> <<>>, count |-> 0,
     select_indices |-> {}, reason |-> "", terminal_before |-> 0,
     raised |-> NoException, drawn |-> <<>>, reports |-> <<>>,
     created |-> <<>>]

Get ==
    /\ Len(groups) < MaxGroups
    /\ \E message \in SpendMessages, num_passes \in 0..MaxTokens :
       \E got \in {SpendingController_get(inventory, message, num_passes)} :
           /\ inventory' = got.inventory
           /\ groups' = IF got.raised # NoException THEN groups
                        ELSE Append(groups, Object(got.value[1], {}, 0))
           /\ lastop' = [NoOp EXCEPT !.method = "get", !.message = message,
                                 !.count = num_passes,
                                 !.raised = got.raised,
                                 !.drawn = got.drawn,
                                 !.created = IF got.raised # NoException
                                             THEN <<>>
                                             ELSE <<Len(groups) + 1>>]
    /\ UNCHANGED <<retired, gate, rest>>

Split ==
    /\ Len(groups) < MaxGroups
    /\ \E g \in DOMAIN groups, select_indices \in SelectIndices :
           LET halves == split(groups[g].value, select_indices)
               from == groups[g].from \cup {g}
           IN  /\ groups' = groups \o
                       <<Object(halves[1], from, Len(groups) + 2),
                         Object(halves[2], from, Len(groups) + 1)>>
               /\ lastop' = [NoOp EXCEPT !.method = "split", !.group = g,
                                     !.select_indices = select_indices,
                                     !.created = <<Len(groups) + 1,
                                                   Len(groups) + 2>>]
    /\ UNCHANGED <<inventory, retired, gate, rest>>

Expand ==
    /\ Len(groups) < MaxGroups
    /\ \E g \in DOMAIN groups, by_amount \in 0..MaxTokens :
       \E got \in {expand(inventory, groups[g].value, by_amount)} :
           /\ inventory' = got.inventory
           /\ groups' = IF got.raised # NoException THEN groups
                        ELSE Append(groups,
                                 Object(got.value[1],
                                        groups[g].from \cup {g}, 0))
           /\ lastop' = [NoOp EXCEPT !.method = "expand", !.group = g,
                                 !.count = by_amount,
                                 !.raised = got.raised,
                                 !.drawn = got.drawn,
                                 !.created = IF got.raised # NoException
                                             THEN <<>>
                                             ELSE <<Len(groups) + 1>>]
    /\ UNCHANGED <<retired, gate, rest>>

RECURSIVE Sum(_)
Sum(xs) == IF xs = <<>> THEN 0 ELSE Head(xs) + Sum(Tail(xs))

\* The number of terminal calls made so far.
TerminalCalls == Sum([g \in DOMAIN groups |-> groups[g].terminal])

\* What a terminal call on the group g leaves, given what the method made
\* of the inventory.
Terminal(method, g, reason, outcome) ==
    /\ inventory' = outcome.inventory
    /\ groups' = [groups EXCEPT ![g].terminal = @ + 1]
    /\ lastop' = [NoOp EXCEPT !.method = method, !.group = g,
                          !.reason = reason,
                          !.terminal_before = groups[g].terminal,
                          !.raised = outcome.raised,
                          !.reports = outcome.reports]
    /\ UNCHANGED <<gate, rest>>

MarkSpent ==
    \E g \in DOMAIN groups :
        /\ TerminalCalls < MaxTerminalCalls
        /\ \E outcome \in {PassGroup_mark_spent(inventory, groups[g].value)} :
               Terminal("mark_spent", g, "", outcome)
        /\ retired' = retired \cup Range(PassGroup_unblinded_tokens(groups[g].value))

MarkInvalid ==
    \E g \in DOMAIN groups, reason \in Reasons :
        /\ TerminalCalls < MaxTerminalCalls
        /\ \E outcome \in {PassGroup_mark_invalid(inventory, groups[g].value, reason)} :
               Terminal("mark_invalid", g, reason, outcome)
        /\ retired' = retired \cup Range(PassGroup_unblinded_tokens(groups[g].value))

Reset ==
    \E g \in DOMAIN groups :
        /\ TerminalCalls < MaxTerminalCalls
        /\ \E outcome \in {PassGroup_reset(inventory, groups[g].value)} :
               Terminal("reset", g, "", outcome)
        /\ retired' = retired

(***************************************************************************)
(* SpendingController.get with its collaborators as they are given: the    *)
(* conversion is whatever callable the controller was constructed with     *)
(* (line 193), and the message is whatever bytes the caller passes.        *)
(***************************************************************************)
\* What an injected conversion does: it returns one pass for each token, it
\* returns a list one pass shorter or one pass longer, or it raises.
Conversions == {"one each", "one fewer", "one more", "raises"}

ConversionError == <<"Exception">>
UnicodeDecodeError == <<"UnicodeDecodeError">>

\* A message whose bytes are not UTF-8.
NotUtf8 == <<"\\xff", "si1">>
GetMessages == SpendMessages \cup {NotUtf8}

\* message.decode("utf-8"), line 213.
decode(message) ==
    IF message = NotUtf8
    THEN [raised |-> UnicodeDecodeError, value |-> <<>>]
    ELSE [raised |-> NoException, value |-> message]

\* self.tokens_to_passes(message, unblinded_tokens), line 211, for a
\* conversion of the given kind.
call_tokens_to_passes(conversion, message, unblinded_tokens) ==
    LET each == tokens_to_passes(message, unblinded_tokens)
    IN  CASE conversion = "raises" ->
                 [raised |-> ConversionError, value |-> <<>>]
          [] conversion = "one fewer" ->
                 [raised |-> NoException,
                  value |-> SubSeq(each, 1, Max({Len(each) - 1, 0}))]
          [] conversion = "one more" ->
                 [raised |-> NoException,
                  value |-> Append(each, MakePass(SigningKey, 0, message))]
          [] OTHER -> [raised |-> NoException, value |-> each]

\* Lines 209-216, statement by statement: the draw, the conversion, the
\* event (whose message is decoded), the group.  Nothing is caught: what a
\* statement raises ends the call with the inventory as the draw left it.
SpendingController_get_calling(inv, conversion, message, num_passes) ==
    LET got == get_unblinded_tokens(inv, num_passes)
        converted == call_tokens_to_passes(conversion, message, got.value)
        failed(raised, drawn) ==
            [raised |-> raised, drawn |-> drawn, value |-> <<>>,
             inventory |-> got.inventory]
    IN  CASE got.raised # NoException -> failed(got.raised, <<>>)
          [] /\ got.raised = NoException
             /\ converted.raised # NoException ->
                 failed(converted.raised, got.value)
          [] /\ got.raised = NoException
             /\ converted.raised = NoException
             /\ decode(message).raised # NoException ->
                 failed(decode(message).raised, got.value)
          [] OTHER ->
                 [raised |-> NoException, drawn |-> got.value,
                  value |-> <<PassGroup(message, "SpendingController",
                                 zip(got.value, converted.value))>>,
                  inventory |-> got.inventory]

\* PassGroup.expand, lines 161-162, on such a controller.
expand_calling(inv, conversion, self, by_amount) ==
    LET got == SpendingController_get_calling(inv, conversion, self.message, by_amount)
    IN  IF got.raised # NoException
        THEN got
        ELSE [got EXCEPT !.value = <<__add__(self, got.value[1])>>]

GetCalling ==
    /\ Len(groups) < MaxGroups
    /\ \E conversion \in Conversions, message \in GetMessages, num_passes \in 0..MaxTokens :
       \E got \in {SpendingController_get_calling(inventory, conversion, message, num_passes)} :
           /\ inventory' = got.inventory
           /\ groups' = IF got.raised # NoException THEN groups
                        ELSE Append(groups, Object(got.value[1], {}, 0))
           /\ lastop' = [NoOp EXCEPT !.method = "get", !.message = message,
                                 !.count = num_passes,
                                 !.raised = got.raised,
                                 !.drawn = got.drawn,
                                 !.created = IF got.raised # NoException
                                             THEN <<>>
                                             ELSE <<Len(groups) + 1>>]
    /\ UNCHANGED <<retired, gate, rest>>

ExpandCalling ==
    /\ Len(groups) < MaxGroups
    /\ \E conversion \in Conversions, g \in DOMAIN groups, by_amount \in 0..MaxTokens :
       \E got \in {expand_calling(inventory, conversion, groups[g].value, by_amount)} :
           /\ inventory' = got.inventory
           /\ groups' = IF got.raised # NoException THEN groups
                        ELSE Append(groups,
                                 Object(got.value[1],
                                        groups[g].from \cup {g}, 0))
           /\ lastop' = [NoOp EXCEPT !.method = "expand", !.group = g,
                                 !.count = by_amount,
                                 !.raised = got.raised,
                                 !.drawn = got.drawn,
                                 !.created = IF got.raised # NoException
                                             THEN <<>>
                                             ELSE <<Len(groups) + 1>>]
    /\ UNCHANGED <<retired, gate, rest>>

(***************************************************************************)
(* Recovery from a replica: recover.py.                                    *)
(***************************************************************************)
MaxInvocations == 2
MaxStatements == 2
MaxReports == 1

\* RecoveryStages, lines 43-67.
RecoveryStages ==
    {"inactive", "started", "downloading", "importing", "succeeded",
     "download_failed", "import_failed"}

None == "None"

\* RecoveryState, lines 70-82.
RecoveryState(stage, failure_reason) ==
    [stage |-> stage, failure_reason |-> failure_reason]

\* What a downloader's awaitable can raise, and the replicas it can return:
\* bytes that are not ASCII, or lines of SQL, of which the cursor rejects
\* "bad".
Errors == {"download error 1", "download error 2"}
Statements == {"s1", "bad"}
NotAscii == [ascii |-> FALSE, lines |-> <<>>]
Replicas ==
    {NotAscii}
    \cup {[ascii |-> TRUE, lines |-> lines] :
             lines \in SeqUpTo(Statements, MaxStatements)}

\* statements_from_download, lines 185-189: decode("ascii") raises on other
\* bytes.
statements_from_download(data) ==
    IF data.ascii THEN Returns(data.lines) ELSE Raises

\* recover (the function), lines 192-197: the statements are executed in
\* order; the first one the cursor rejects ends the loop with its exception.
RECURSIVE Executed(_)
Executed(statements) ==
    IF statements = <<>> \/ Head(statements) = "bad" THEN <<>>
    ELSE <<Head(statements)>> \o Executed(Tail(statements))

\* Faulty variant: a statement the cursor rejects is passed over and the
\* ones after it are executed.
recover_continuing(statements, executed) ==
    [raised |-> \E i \in DOMAIN statements : statements[i] = "bad",
     value |-> executed \o SelectSeq(statements, LAMBDA sql : sql # "bad")]

recover(statements, executed) ==
    [raised |-> \E i \in DOMAIN statements : statements[i] = "bad",
     value |-> executed \o Executed(statements)]

\* Faulty variant: only a recovery in progress is refused; one that has
\* ended can be started again.
already_recovering_in_progress(state) ==
    state.stage \in {"started", "downloading", "importing"}

\* Faulty variant: only a recovery that has ended is refused.
already_recovering_ended(state) ==
    state.stage \in {"succeeded", "download_failed", "import_failed"}

\* Lines 121-122: the condition under which recover raises
\* AlreadyRecovering.
already_recovering(state) == state.stage # "inactive"

\* What the awaitable of a downloader has given: nothing yet, an exception,
\* or a replica.
Nothing == [kind |-> "nothing", error |-> None, replica |-> NotAscii]
Raised(e) == [kind |-> "error", error |-> e, replica |-> NotAscii]
Downloaded(data) == [kind |-> "replica", error |-> None, replica |-> data]

\* An invocation of StatefulRecoverer.recover: the stage it found, where it
\* is (awaiting its download, returned, or ended by AlreadyRecovering),
\* how many states its downloader has reported, and what its download gave.
\* What a download gave is kept for the invocation resumed last.
Invocation(found, pc) ==
    [found |-> found, pc |-> pc, reports |-> 0, got |-> Nothing]

\* The invocation i is resumed with what its awaitable gave and returns.
Resumed(i, got) ==
    [k \in DOMAIN invocations |->
        IF k = i
        THEN [invocations[k] EXCEPT !.pc = "returned", !.got = got]
        ELSE [invocations[k] EXCEPT !.got = Nothing]]

\* Lines 121-126: recover is called; it raises, or sets the stage started
\* and calls the downloader, whose awaitable it then awaits.
Recover ==
    /\ Len(invocations) < MaxInvocations
    /\ IF already_recovering(_state)
       THEN /\ invocations' =
                   Append(invocations, Invocation(_state.stage, "raised"))
            /\ UNCHANGED <<_state, downloads>>
       ELSE /\ _state' = RecoveryState("started", None)
            /\ downloads' = downloads + 1
            /\ invocations' =
                   Append(invocations, Invocation(_state.stage, "awaiting"))
    /\ UNCHANGED <<cursor, gate, spending, calc, payments, maintenance>>

\* The downloader of an awaiting invocation calls the set_state it was
\* given (self._set_state, lines 145-149), as tahoe_lafs_downloader does at
\* line 215 with the stage downloading.
DownloaderSetsState ==
    \E i \in DOMAIN invocations, stage \in RecoveryStages :
        /\ invocations[i].pc = "awaiting"
        /\ invocations[i].reports < MaxReports
        /\ _state' = RecoveryState(stage, None)
        /\ invocations' =
               [invocations EXCEPT ![i].reports = invocations[i].reports + 1]
        /\ UNCHANGED <<cursor, downloads, gate, spending, calc, payments, maintenance>>

\* RecoveryStages, lines 61-67: the values auto() gives the stages.
StageValue ==
    [stage \in RecoveryStages |->
        CASE stage = "inactive" -> 1
          [] stage = "started" -> 2
          [] stage = "downloading" -> 3
          [] stage = "importing" -> 4
          [] stage = "succeeded" -> 5
          [] stage = "download_failed" -> 6
          [] stage = "import_failed" -> 7]

\* A downloader which reports forward progress only, as
\* tahoe_lafs_downloader does (line 215: downloading, once, before it
\* awaits): the stage it reports is not one before the stage reached.
DownloaderReportsProgress ==
    \E i \in DOMAIN invocations, stage \in RecoveryStages :
        /\ invocations[i].pc = "awaiting"
        /\ invocations[i].reports < MaxReports
        /\ StageValue[stage] >= StageValue[_state.stage]
        /\ _state' = RecoveryState(stage, None)
        /\ invocations' =
               [invocations EXCEPT ![i].reports = invocations[i].reports + 1]
        /\ UNCHANGED <<cursor, downloads, gate, spending, calc, payments, maintenance>>

\* Faulty variant: the exception of the awaitable ends the invocation and
\* no state is set for it.
DownloadRaises_unanswered ==
    \E i \in DOMAIN invocations, e \in Errors :
        /\ invocations[i].pc = "awaiting"
        /\ invocations' = Resumed(i, Raised(e))
        /\ UNCHANGED <<_state, cursor, downloads, gate, spending, calc, payments, maintenance>>

\* Lines 127-133: the awaitable raises an Exception.
DownloadRaises ==
    \E i \in DOMAIN invocations, e \in Errors :
        /\ invocations[i].pc = "awaiting"
        /\ _state' = RecoveryState("download_failed", e)
        /\ invocations' = Resumed(i, Raised(e))
        /\ UNCHANGED <<cursor, downloads, gate, spending, calc, payments, maintenance>>

\* Lines 135-143: the awaitable returns the replica, which is imported.
DownloadReturns ==
    \E i \in DOMAIN invocations, downloaded_data \in Replicas :
        LET statements == statements_from_download(downloaded_data)
            imported == recover(statements.value, cursor)
        IN  /\ invocations[i].pc = "awaiting"
            /\ invocations' = Resumed(i, Downloaded(downloaded_data))
            /\ IF statements.raised
               THEN /\ _state' = RecoveryState("import_failed", "decode")
                    /\ UNCHANGED cursor
               ELSE /\ cursor' = imported.value
                    /\ _state' =
                           IF imported.raised
                           THEN RecoveryState("import_failed", "execute")
                           ELSE RecoveryState("succeeded", None)
            /\ UNCHANGED <<downloads, gate, spending, calc, payments, maintenance>>

(***************************************************************************)
(* The store of payment references (model.py of the earlier package), which *)
(* is not among the sources: modelled from what its tests say of it.       *)
(***************************************************************************)
MaxAdds == 4
PaymentReferenceNumbers == {"prn1", "prn2", "prn3"}

PaymentReference(number) == [number |-> number]
KeyError(key) == <<"KeyError", key>>

\* The numbers of the references the store holds.
Numbers(rows) == {rows[i].number : i \in DOMAIN rows}

\* Faulty variant: the store holds the reference added last and no other.
PaymentReferenceStore_add_replacing(rows, prn) == <<PaymentReference(prn)>>

\* Faulty variant: a number added again is stored again.
PaymentReferenceStore_add_duplicating(rows, prn) ==
    Append(rows, PaymentReference(prn))

\* add: a reference with the number is stored unless there is one already.
PaymentReferenceStore_add(rows, prn) ==
    IF prn \in Numbers(rows) THEN rows ELSE Append(rows, PaymentReference(prn))

\* get: the reference stored under the number; KeyError if there is none.
PaymentReferenceStore_get(rows, prn) ==
    LET found == SelectSeq(rows, LAMBDA row : row.number = prn)
    IN  IF found = <<>>
        THEN [raised |-> KeyError(prn), value |-> <<>>]
        ELSE [raised |-> NoException, value |-> <<Head(found)>>]

\* list: a reference for every row of the store.
PaymentReferenceStore_list(rows) == [raised |-> NoException, value |-> rows]

NoPay == [method |-> "none", prn |-> "none", raised |-> NoException,
          value |-> <<>>]

PaymentAdd ==
    \E prn \in PaymentReferenceNumbers :
        /\ Len(added) < MaxAdds
        /\ store' = PaymentReferenceStore_add(store, prn)
        /\ added' = Append(added, prn)
        /\ lastpay' = [method |-> "add", prn |-> prn, raised |-> NoException,
                       value |-> <<>>]
        /\ UNCHANGED <<gate, spending, calc, recovery, maintenance>>

PaymentGet ==
    \E prn \in PaymentReferenceNumbers :
        LET got == PaymentReferenceStore_get(store, prn)
        IN  /\ lastpay' = [method |-> "get", prn |-> prn,
                           raised |-> got.raised, value |-> got.value]
            /\ UNCHANGED <<store, added, gate, spending, calc, recovery, maintenance>>

PaymentList ==
    LET listed == PaymentReferenceStore_list(store)
    IN  /\ lastpay' = [method |-> "list", prn |-> "none",
                       raised |-> listed.raised, value |-> listed.value]
        /\ UNCHANGED <<store, added, gate, spending, calc, recovery, maintenance>>

(***************************************************************************)
(* Lease maintenance.  lease_maintenance.py is not among the sources: the  *)
(* renewal is modelled from what its tests say of it, the storage servers  *)
(* it works on are those of the tests.                                     *)
(***************************************************************************)
MaxClock == 2
MaxMinLeaseRemaining == 3
\* timedelta(days=31), the term of a lease DummyStorageServer.add_lease
\* grants, in units of the clock.
LeaseTerm == 2

Servers == {"server1", "server2"}
\* A storage index the server has no shares at.
NoShares == -1
Expirations == 0..(MaxClock + LeaseTerm)

\* DummyStorageServer.stat_shares, lines 153-158: for each storage index
\* the stat of share 0, or nothing where the server has no shares.
stat_shares(server_buckets, storage_indexes) ==
    [idx \in storage_indexes |->
        IF server_buckets[idx] # NoShares THEN {server_buckets[idx]} ELSE {}]

\* Faulty variant: the renewed lease expires at once.
add_lease_expiring(server_buckets, storage_index, t) ==
    [server_buckets EXCEPT ![storage_index] = t]

\* DummyStorageServer.add_lease, lines 163-166.
add_lease(server_buckets, storage_index, t) ==
    [server_buckets EXCEPT ![storage_index] = t + LeaseTerm]

\* renew_leases on one server: the lease of the shares at each storage
\* index visited is renewed if it has no more than min_lease_remaining left.
needs_renewal(server_buckets, storage_indexes, min_lease_remaining, t) ==
    LET stats == stat_shares(server_buckets, storage_indexes)
    IN  {idx \in storage_indexes :
            \E lease_expiration \in stats[idx] :
                lease_expiration - t <= min_lease_remaining}

RECURSIVE add_leases(_, _, _)
add_leases(server_buckets, storage_indexes, t) ==
    IF storage_indexes = {} THEN server_buckets
    ELSE LET idx == CHOOSE x \in storage_indexes : TRUE
         IN  add_leases(add_lease(server_buckets, idx, t),
                        storage_indexes \ {idx}, t)

\* renew_leases: every connected server is asked about the storage indexes
\* visited and its leases are renewed where needed.
renew_leases(all_buckets, storage_indexes, min_lease_remaining, t) ==
    LET renewed ==
            [server \in Servers |->
                needs_renewal(all_buckets[server], storage_indexes,
                              min_lease_remaining, t)]
    IN  [renewed |-> renewed,
         buckets |-> [server \in Servers |->
                         add_leases(all_buckets[server], renewed[server], t)]]

NoSweep == [method |-> "none", storage_indexes |-> {},
            min_lease_remaining |-> 0,
            renewed |-> [server \in Servers |-> {}]]

\* create_shares, lines 173-193.
CreateShares ==
    \E server \in Servers, storage_index \in StorageIndexes,
       lease_expiration \in Expirations :
        /\ sweep = NoSweep
        /\ buckets[server][storage_index] = NoShares
        /\ buckets' = [buckets EXCEPT ![server][storage_index] =
                                          lease_expiration]
        /\ UNCHANGED <<clock, sweep, gate, spending, calc, recovery, payments>>

\* The broker's clock advances.
ClockAdvances ==
    /\ sweep = NoSweep
    /\ clock < MaxClock
    /\ clock' = clock + 1
    /\ UNCHANGED <<buckets, sweep, gate, spending, calc, recovery, payments>>

\* One renewal from start to completion, at one time of the clock, of the
\* leases at the storage indexes visited.
Sweep(method, storage_indexes, min_lease_remaining) ==
    LET done == renew_leases(buckets, storage_indexes, min_lease_remaining,
                             clock)
    IN  /\ sweep = NoSweep
        /\ buckets' = done.buckets
        /\ sweep' = [method |-> method, storage_indexes |-> storage_indexes,
                     min_lease_remaining |-> min_lease_remaining,
                     renewed |-> done.renewed]
        /\ UNCHANGED <<clock, gate, spending, calc, recovery, payments>>

\* renew_leases(visit_assets, storage_broker, secret_holder,
\* min_lease_remaining, activity_observer, now)
RenewLeases ==
    \E storage_indexes \in SUBSET StorageIndexes,
       min_lease_remaining \in 0..MaxMinLeaseRemaining :
        Sweep("renew_leases", storage_indexes, min_lease_remaining)

\* The operation maintain_leases_from_root creates: the storage indexes
\* visited are those of the nodes below the root.
MaintainLeasesFromRoot ==
    \E flattened \in SUBSET StorageIndexes \ {{}},
       min_lease_remaining \in 0..MaxMinLeaseRemaining :
        Sweep("maintain_leases_from_root", flattened, min_lease_remaining)

\* The renewal is over.
SweepReturn ==
    /\ sweep # NoSweep
    /\ sweep' = NoSweep
    /\ UNCHANGED <<buckets, clock, gate, spending, calc, recovery, payments>>

(***************************************************************************)
(* The pure functions of the gate, each applied once to inputs of its own. *)
(***************************************************************************)
MaxBytesPerPass == 3
MaxAllocatedSize == 7

NoCalc == [fn |-> "none"]

\* The function applied has returned; nothing of the application is kept.
CalcReturn ==
    /\ calc # NoCalc
    /\ calc' = NoCalc
    /\ UNCHANGED <<gate, spending, recovery, payments, maintenance>>

\* required_passes(bytes_per_pass, sharenums, allocated_size)
RequiredPasses ==
    /\ calc = NoCalc
    /\ \E bytes_per_pass \in 1..MaxBytesPerPass, sharenums \in SUBSET Sharenums,
       allocated_size \in 0..MaxAllocatedSize :
        /\ calc' = [fn |-> "required_passes",
                    bytes_per_pass |-> bytes_per_pass,
                    sharenums |-> sharenums,
                    allocated_size |-> allocated_size,
                    result |-> required_passes(bytes_per_pass, sharenums,
                                               allocated_size)]
        /\ UNCHANGED <<gate, spending, recovery, payments, maintenance>>

\* The test/write vectors a single check is applied to: up to MaxFragments
\* fragments for each share.
MaxFragments == 2
CalcFragments ==
    {[offset |-> 0, len |-> 0], [offset |-> 0, len |-> 2],
     [offset |-> 1, len |-> 2], [offset |-> 2, len |-> 3]}
CalcVectors == [Sharenums -> SeqUpTo(CalcFragments, MaxFragments)]

\* check_pass_quantity_for_mutable_write(valid_count, tw_vectors), with the
\* two values it computes on the way, and what the gate decides about the
\* same vectors sent with no passes to a slot that has no lease.
CheckMutableWrite ==
    /\ calc = NoCalc
    /\ \E valid_count \in 0..MaxPasses + 1, tw_vectors \in CalcVectors :
        /\ calc' = [fn |-> "check_pass_quantity_for_mutable_write",
                    valid_count |-> valid_count,
                    tw_vectors |-> tw_vectors,
                    sharenums |-> get_sharenums(tw_vectors),
                    allocated_size |-> get_allocated_size(tw_vectors),
                    result |-> check_pass_quantity_for_mutable_write(
                                   valid_count, tw_vectors),
                    decided |-> slot_testv_and_readv_and_writev_check(
                                    <<>>, "si1", tw_vectors,
                                    [storage_index \in StorageIndexes |-> {}],
                                    0)]
        /\ UNCHANGED <<gate, spending, recovery, payments, maintenance>>

\* The lists of passes the filter alone is applied to: two passes valid
\* for an allocation at si1, one valid for a lease at si1, one issued under
\* another key and one with no delimiter in it.
MaxCalcPasses == 3
CalcMessages == {<<"allocate_buckets", "si1">>, <<"add_lease", "si1">>}
CalcPool ==
    {MakePass(SigningKey, 1, <<"allocate_buckets", "si1">>),
     MakePass(SigningKey, 2, <<"allocate_buckets", "si1">>),
     MakePass(SigningKey, 3, <<"add_lease", "si1">>),
     MakePass(OtherKey, 4, <<"allocate_buckets", "si1">>),
     <<PreimagePart(5)>>}

\* _validate_passes(message, passes), and _validate_passes applied to the
\* list it returned.
ValidatePasses ==
    /\ calc = NoCalc
    /\ \E message \in CalcMessages, passes \in SeqUpTo(CalcPool, MaxCalcPasses) :
        LET result == _validate_passes(message, passes)
        IN  /\ calc' = [fn |-> "_validate_passes",
                        message |-> message,
                        passes |-> passes,
                        result |-> result,
                        again |-> IF result.raised THEN result
                                  ELSE _validate_passes(message, result.value)]
            /\ UNCHANGED <<gate, spending, recovery, payments, maintenance>>

\* The times the leases and the clock of a single lease check range over.
MaxCalcTime == 2
CalcTimes == 0..MaxCalcTime
\* A write of two bytes to share 0.
CalcWrite ==
    [sharenum \in Sharenums |->
        IF sharenum = 0 THEN <<[offset |-> 0, len |-> 2]>> ELSE <<>>]

\* has_active_lease(storage_server, storage_index, now), and what the gate
\* decides about a write to that storage index made at that time with no
\* passes.
HasActiveLease ==
    /\ calc = NoCalc
    /\ \E storage_leases \in [StorageIndexes -> SUBSET CalcTimes],
       storage_index \in StorageIndexes, t \in CalcTimes :
        /\ calc' = [fn |-> "has_active_lease",
                    storage_leases |-> storage_leases,
                    storage_index |-> storage_index,
                    now |-> t,
                    result |-> has_active_lease(storage_leases,
                                                storage_index, t),
                    write |-> slot_testv_and_readv_and_writev_check(
                                  <<>>, storage_index, CalcWrite,
                                  storage_leases, t)]
        /\ UNCHANGED <<gate, spending, recovery, payments, maintenance>>

Init ==
    /\ now = 0
    /\ leases = [storage_index \in StorageIndexes |-> {}]
    /\ shares = {}
    /\ last = NoCall
    /\ spent = {}
    /\ probe = NoProbe
    /\ inventory = [unblinded_token \in Tokens |-> "available"]
    /\ groups = <<>>
    /\ lastop = NoOp
    /\ retired = {}
    /\ calc = NoCalc
    /\ _state = RecoveryState("inactive", None)
    /\ invocations = <<>>
    /\ cursor = <<>>
    /\ downloads = 0
    /\ store = <<>>
    /\ added = <<>>
    /\ lastpay = NoPay
    /\ buckets = [server \in Servers |->
                     [storage_index \in StorageIndexes |-> NoShares]]
    /\ clock = 0
    /\ sweep = NoSweep

AllocateBuckets ==
    /\ last = NoCall
    /\ \E passes \in PassLists, storage_index \in StorageIndexes,
          sharenums \in SUBSET Sharenums \ {{}},
          allocated_size \in 0..MaxSize :
           remote_allocate_buckets(passes, storage_index, sharenums,
                                   allocated_size)

AddLease ==
    /\ last = NoCall
    /\ \E passes \in PassLists, storage_index \in StorageIndexes :
           remote_add_lease(passes, storage_index)

RenewLease ==
    /\ last = NoCall
    /\ \E passes \in PassLists, storage_index \in StorageIndexes :
           remote_renew_lease(passes, storage_index)

SlotTestvAndReadvAndWritev ==
    /\ last = NoCall
    /\ \E passes \in PassLists, storage_index \in StorageIndexes,
          tw_vectors \in TWVectors :
           remote_slot_testv_and_readv_and_writev(passes, storage_index,
                                                  tw_vectors)

GetVersion ==
    /\ last = NoCall
    /\ remote_get_version

GetBuckets ==
    /\ last = NoCall
    /\ \E storage_index \in StorageIndexes : remote_get_buckets(storage_index)

AdviseCorruptShare ==
    /\ last = NoCall
    /\ \E storage_index \in StorageIndexes, shnum \in Sharenums :
           remote_advise_corrupt_share(storage_index, shnum)

SlotReadv ==
    /\ last = NoCall
    /\ \E storage_index \in StorageIndexes, sharenums \in SUBSET Sharenums :
           remote_slot_readv(storage_index, sharenums)

\* The gate, one call at a time.
Next ==
    \/ AllocateBuckets
    \/ AddLease
    \/ RenewLease
    \/ SlotTestvAndReadvAndWritev
    \/ GetVersion
    \/ GetBuckets
    \/ AdviseCorruptShare
    \/ SlotReadv
    \/ Return
    \/ Tick

Spec == Init /\ [][Next]_vars

\* Allocations only, with the history of counted passes kept.
NextReplay ==
    \/ AllocateBuckets
    \/ ReturnAndRecord

SpecReplay == Init /\ [][NextReplay]_vars

\* Validity checks of single passes.
NextPass ==
    \/ IsInvalidPass
    \/ ProbeDone

SpecPass == Init /\ [][NextPass]_vars

\* The client alone: every order of spending calls.
NextSpend ==
    \/ Get
    \/ Split
    \/ Expand
    \/ MarkSpent
    \/ MarkInvalid
    \/ Reset

SpecSpend == Init /\ [][NextSpend]_vars

\* The spending calls on a controller whose conversion and whose messages
\* are as the caller gives them.
NextConvert ==
    \/ GetCalling
    \/ ExpandCalling
    \/ Split
    \/ MarkSpent
    \/ MarkInvalid
    \/ Reset

SpecConvert == Init /\ [][NextConvert]_vars

\* The pure functions alone.
NextCalc ==
    \/ RequiredPasses
    \/ CheckMutableWrite
    \/ ValidatePasses
    \/ HasActiveLease
    \/ CalcReturn

SpecCalc == Init /\ [][NextCalc]_vars

\* The recoverer alone.
NextRecover ==
    \/ Recover
    \/ DownloaderSetsState
    \/ DownloadRaises
    \/ DownloadReturns

SpecRecover == Init /\ [][NextRecover]_vars

\* The recoverer with downloaders which report forward progress only and
\* whose awaitables complete: an invocation that awaits its download is
\* resumed, with what the awaitable returned or with what it raised.
NextRecoverLive ==
    \/ Recover
    \/ DownloaderReportsProgress
    \/ DownloadRaises
    \/ DownloadReturns

SpecRecoverLive ==
    /\ Init
    /\ [][NextRecoverLive]_vars
    /\ WF_vars(DownloadRaises \/ DownloadReturns)

\* The store of payment references alone.
NextPayments ==
    \/ PaymentAdd
    \/ PaymentGet
    \/ PaymentList

SpecPayments == Init /\ [][NextPayments]_vars

\* Lease maintenance alone.
NextMaintenance ==
    \/ CreateShares
    \/ ClockAdvances
    \/ RenewLeases
    \/ MaintainLeasesFromRoot
    \/ SweepReturn

SpecMaintenance == Init /\ [][NextMaintenance]_vars

(***************************************************************************)
(* What the claims speak of, stated apart from the code above.             *)
(***************************************************************************)
\* pass_ is the pass some token issued under the server's key gives for
\* message.
Genuine(message, pass_) ==
    /\ Len(pass_) = 2
    /\ pass_[1].type = "preimage"
    /\ pass_[2].type = "signature"
    /\ pass_ = MakePass(SigningKey, pass_[1].tok, message)

\* How many of the passes supplied are valid for message.
GenuineCount(message, passes) ==
    Cardinality({i \in DOMAIN passes : Genuine(message, passes[i])})

\* The write vectors contain a write.
ContainsWrite(tw_vectors) ==
    \E sharenum \in DOMAIN tw_vectors : Len(tw_vectors[sharenum]) > 0

\* The largest offset + length over all fragments of all shares.
LargestWrite(tw_vectors) ==
    Max(UNION {{tw_vectors[n][i].offset + tw_vectors[n][i].len :
                   i \in DOMAIN tw_vectors[n]} : n \in DOMAIN tw_vectors})

\* The number of passes a mutable write of these vectors requires.
RequiredForWrite(tw_vectors) ==
    required_passes(BYTES_PER_PASS, {}, LargestWrite(tw_vectors))

\* The storage index has a lease that expires after the clock's time.
ActiveLease(storage_index) ==
    \E expiration \in leases[storage_index] : expiration > now

AllocateMessage(call) == allocate_buckets_message(call.storage_index)
SlotMessage(call) ==
    slot_testv_and_readv_and_writev_message(call.storage_index)

(***************************************************************************)
(* C1.  An allocation with fewer valid passes than required fails with     *)
(* MorePassesRequired(valid_count, required_count) and the wrapped         *)
(* server's allocate is not invoked: nothing is forwarded and its shares   *)
(* and leases stay as they were.                                           *)
(***************************************************************************)
C1_Step ==
    (last.op = "none" /\ last'.op = "remote_allocate_buckets") =>
        LET valid == GenuineCount(AllocateMessage(last'), last'.passes)
            required == required_passes(BYTES_PER_PASS, last'.sharenums,
                                        last'.allocated_size)
        IN  valid < required =>
                /\ last'.raised = MorePassesRequired(valid, required)
                /\ last'.forwarded = <<>>
                /\ shares' = shares
                /\ leases' = leases

C1_AllocateFailsClosed == [][C1_Step]_vars

\* An allocation refused with one valid pass of the two it needed, the other
\* pass supplied being invalid.
C1_Witness ==
    /\ last.op = "remote_allocate_buckets"
    /\ Len(last.passes) = 2
    /\ GenuineCount(AllocateMessage(last), last.passes) = 1
    /\ last.raised = MorePassesRequired(1, 2)
    /\ last.forwarded = <<>>

(***************************************************************************)
(* C2.  A mutable write that contains a write, to a storage index with no  *)
(* active lease, with fewer valid passes than required, fails with         *)
(* MorePassesRequired(valid_count, required_count); the wrapped server's   *)
(* slot_testv_and_readv_and_writev is not invoked, nothing is written and  *)
(* no lease is created.                                                    *)
(***************************************************************************)
C2_Step ==
    (/\ last.op = "none"
     /\ last'.op = "remote_slot_testv_and_readv_and_writev"
     /\ ContainsWrite(last'.tw_vectors)
     /\ ~ ActiveLease(last'.storage_index)) =>
        LET valid == GenuineCount(SlotMessage(last'), last'.passes)
            required == RequiredForWrite(last'.tw_vectors)
        IN  valid < required =>
                /\ last'.raised = MorePassesRequired(valid, required)
                /\ last'.forwarded = <<>>
                /\ shares' = shares
                /\ leases' = leases

C2_MutableWriteFailsClosed == [][C2_Step]_vars

\* A write refused with no valid pass where one was needed, an invalid one
\* having been supplied.
C2_Witness ==
    /\ last.op = "remote_slot_testv_and_readv_and_writev"
    /\ Len(last.passes) > 0
    /\ last.raised = MorePassesRequired(0, 1)
    /\ last.forwarded = <<>>
    /\ last.storage_index \notin shares

(***************************************************************************)
(* C3.  A mutable write that contains a write, to a storage index with no  *)
(* active lease, with at least the required number of valid passes, is     *)
(* forwarded exactly once, with renew_leases=True, and the lease exists    *)
(* afterwards; no call forwards with renew_leases=True in any other case.  *)
(***************************************************************************)
C3_Step ==
    (last.op = "none" /\ last'.op # "none") =>
        LET paid ==
                /\ last'.op = "remote_slot_testv_and_readv_and_writev"
                /\ ContainsWrite(last'.tw_vectors)
                /\ ~ ActiveLease(last'.storage_index)
                /\ GenuineCount(SlotMessage(last'), last'.passes)
                       >= RequiredForWrite(last'.tw_vectors)
        IN  /\ paid =>
                /\ last'.forwarded =
                       <<Forward("slot_testv_and_readv_and_writev",
                                 last'.storage_index, {}, 0,
                                 last'.tw_vectors, TRUE)>>
                /\ \E expiration \in leases'[last'.storage_index] :
                       expiration > now
            /\ (\E i \in DOMAIN last'.forwarded :
                    last'.forwarded[i].renew_leases) => paid

C4_Step ==
    (/\ last.op = "none"
     /\ last'.op = "remote_slot_testv_and_readv_and_writev"
     /\ ActiveLease(last'.storage_index)) =>
        /\ last'.raised = NoException
        /\ last'.validations = <<>>
        /\ last'.forwarded =
               <<Forward("slot_testv_and_readv_and_writev",
                         last'.storage_index, {}, 0, last'.tw_vectors,
                         FALSE)>>

C4_LeasedWriteIsFree == [][C4_Step]_vars

\* A write that would need two passes, forwarded with none supplied.
C4_Witness ==
    /\ last.op = "remote_slot_testv_and_readv_and_writev"
    /\ ContainsWrite(last.tw_vectors)
    /\ RequiredForWrite(last.tw_vectors) = 2
    /\ last.passes = <<>>
    /\ Len(last.forwarded) = 1
    /\ ~ last.forwarded[1].renew_leases
    /\ last.lease_checked

(***************************************************************************)
(* C5.  A slot call whose write vectors contain no write is forwarded with *)
(* renew_leases=False; no pass is validated and the lease state is not     *)
(* consulted, whatever passes are supplied.                                *)
(***************************************************************************)
C5_ReadPassesThrough ==
    (/\ last.op = "remote_slot_testv_and_readv_and_writev"
     /\ ~ ContainsWrite(last.tw_vectors)) =>
        /\ last.raised = NoException
        /\ last.validations = <<>>
        /\ ~ last.lease_checked
        /\ last.forwarded =
               <<Forward("slot_testv_and_readv_and_writev",
                         last.storage_index, {}, 0, last.tw_vectors, FALSE)>>

\* A call with no write and no pass, forwarded for an index with no lease.
C5_Witness ==
    /\ last.op = "remote_slot_testv_and_readv_and_writev"
    /\ ~ ContainsWrite(last.tw_vectors)
    /\ last.passes = <<>>
    /\ leases[last.storage_index] = {}
    /\ Len(last.forwarded) = 1

(***************************************************************************)
(* C6.  remote_add_lease and remote_renew_lease forward to the wrapped     *)
(* server only when at least one of the passes supplied is valid for the   *)
(* operation's message.                                                    *)
(***************************************************************************)
LeaseMessage(call) ==
    IF call.op = "remote_add_lease"
    THEN add_lease_message(call.storage_index)
    ELSE renew_lease_message(call.storage_index)

C6_LeaseNeedsValidPass ==
    (/\ last.op \in {"remote_add_lease", "remote_renew_lease"}
     /\ last.forwarded # <<>>) =>
        GenuineCount(LeaseMessage(last), last.passes) >= 1

(***************************************************************************)
(* C7.  Passes are single-use at the gate: a pass counted valid by a       *)
(* forwarded call is not counted valid by any later call.                  *)
(***************************************************************************)
C7_SingleUse ==
    last.op # "none" => Counted(last) \cap spent = {}

(***************************************************************************)
(* C8.  Every operation that takes passes validates them against the       *)
(* message of its own kind and storage index, and a pass that is valid for *)
(* another kind or another storage index is never counted valid.           *)
(***************************************************************************)
Binding(call) ==
    CASE call.op = "remote_allocate_buckets" -> AllocateMessage(call)
      [] call.op = "remote_slot_testv_and_readv_and_writev" ->
             SlotMessage(call)
      [] OTHER -> LeaseMessage(call)

C8_PassesBoundToOperation ==
    last.op # "none" =>
        \A i \in DOMAIN last.validations :
            /\ last.validations[i].message = Binding(last)
            /\ \A pass_ \in Range(last.validations[i].valid_passes) :
                   \A message \in Messages :
                       Genuine(message, pass_) => message = Binding(last)
            /\ \A j \in DOMAIN last.passes :
                   Genuine(Binding(last), last.passes[j]) =>
                       last.passes[j] \in
                           Range(last.validations[i].valid_passes)

\* A call made with a pass for its own message and a pass for another
\* message: only the first is counted.
C8_Witness ==
    /\ last.op # "none"
    /\ Len(last.validations) = 1
    /\ Len(last.validations[1].valid_passes) = 1
    /\ \E j \in DOMAIN last.passes, message \in Messages :
           /\ message # Binding(last)
           /\ Genuine(message, last.passes[j])

(***************************************************************************)
(* C9.  What is compared with the required count is the number of passes   *)
(* that are valid, not the number supplied: an invalid pass is left out of *)
(* the count without ending the call, and the valid ones still count.      *)
(***************************************************************************)
C9_Outcome(valid, required) ==
    IF valid < required
    THEN MorePassesRequired(valid, required)
    ELSE NoException

C9_ValidPassesAreCounted ==
    /\ last.op = "remote_allocate_buckets" =>
           last.raised =
               C9_Outcome(GenuineCount(AllocateMessage(last), last.passes),
                          required_passes(BYTES_PER_PASS, last.sharenums,
                                          last.allocated_size))
    /\ (/\ last.op = "remote_slot_testv_and_readv_and_writev"
        /\ last.validations # <<>>) =>
           last.raised =
               C9_Outcome(GenuineCount(SlotMessage(last), last.passes),
                          RequiredForWrite(last.tw_vectors))

\* An allocation that needs one pass, made with a valid and an invalid one,
\* is forwarded.
C9_Witness ==
    /\ last.op = "remote_allocate_buckets"
    /\ Len(last.passes) = 2
    /\ GenuineCount(AllocateMessage(last), last.passes) = 1
    /\ last.allocated_size > 0
    /\ last.raised = NoException
    /\ Len(last.forwarded) = 1

(***************************************************************************)
(* C10.  The validity check fails closed: it raises nothing, and it calls  *)
(* a pass valid only if the pass decodes to a preimage and a signature     *)
(* that the server's key verifies for the message.                         *)
(***************************************************************************)
C10_FailsClosed ==
    probe # NoProbe =>
        /\ ~ probe.result.raised
        /\ ~ Genuine(probe.message, probe.pass_) => probe.result.value

\* A pass whose decoding raised, answered "invalid".
C10_Witness ==
    /\ probe # NoProbe
    /\ pass_check(SigningKey, probe.message, probe.pass_).raised
    /\ probe.result = Returns(TRUE)

(***************************************************************************)
(* C11.  The only failure the gate itself produces is MorePassesRequired:  *)
(* every call, whatever the shape of the write vectors of a mutable write, *)
(* is either forwarded to the wrapped server or raises MorePassesRequired, *)
(* and a call that raises leaves the shares and leases of the wrapped      *)
(* server as they were.                                                    *)
(***************************************************************************)
C11_Step ==
    (last.op = "none" /\ last'.op # "none") =>
        \/ /\ last'.raised = NoException
           /\ Len(last'.forwarded) = 1
        \/ /\ Len(last'.raised) = 3
           /\ last'.raised[1] = "MorePassesRequired"
           /\ last'.forwarded = <<>>
           /\ shares' = shares
           /\ leases' = leases

C11_OnlyMorePassesRequired == [][C11_Step]_vars

\* A mutable write that writes one share and names another without data,
\* refused for want of passes.
C11_Witness ==
    /\ last.op = "remote_slot_testv_and_readv_and_writev"
    /\ \E sharenum \in Sharenums : last.tw_vectors[sharenum] = <<>>
    /\ \E sharenum \in Sharenums : last.tw_vectors[sharenum] # <<>>
    /\ Len(last.raised) = 3
    /\ last.raised[1] = "MorePassesRequired"
    /\ last.forwarded = <<>>

(***************************************************************************)
(* What the claims about spending speak of.                                *)
(***************************************************************************)
TerminalMethods == {"mark_spent", "mark_invalid", "reset"}

\* The tokens that are members of a PassGroup value.
Members(value) == {value.tokens[i][1] : i \in DOMAIN value.tokens}

\* The pair is a token with its pass for the message.
BoundPair(pair, message) ==
    /\ pair[1] \in Tokens
    /\ pair[2] = MakePass(SigningKey, pair[1], message)

\* No terminal method has been called on the group.
Live(g) == groups[g].terminal = 0

(***************************************************************************)
(* C12.  After PassGroup.mark_spent() or PassGroup.mark_invalid(reason),   *)
(* none of the group's tokens is among the tokens of a group that a later  *)
(* SpendingController.get on the same inventory returns.                   *)
(***************************************************************************)
C12_RetiredNeverDrawn ==
    lastop.method \in {"get", "expand"} =>
        /\ Range(lastop.drawn) \cap retired = {}
        /\ \A g \in Range(lastop.created) :
               lastop.method = "get" =>
                   Members(groups[g].value) \cap retired = {}

\* A get that returned tokens after every other token had been marked spent
\* or invalid.
C12_Witness ==
    /\ lastop.method = "get"
    /\ lastop.drawn # <<>>
    /\ retired # {}
    /\ retired \cup Range(lastop.drawn) = Tokens

(***************************************************************************)
(* C13, as the claim states it: after PassGroup.reset(), every token of    *)
(* the group is in the available pool.                                     *)
(***************************************************************************)
C13_EveryTokenAvailable ==
    lastop.method = "reset" =>
        \A unblinded_token \in Members(groups[lastop.group].value) :
            inventory[unblinded_token] = "available"

(***************************************************************************)
(* C13.  After PassGroup.reset(), every token of the group that has not    *)
(* been reported spent or invalid is in the available pool, from which a   *)
(* later get draws; and a token that is not available becomes available    *)
(* only by a reset.                                                        *)
(***************************************************************************)
C13_Step ==
    /\ lastop'.method = "reset" =>
           \A unblinded_token \in Members(groups'[lastop'.group].value) :
               unblinded_token \notin retired' =>
                   inventory'[unblinded_token] = "available"
    /\ \A unblinded_token \in Tokens :
           (/\ inventory[unblinded_token] # "available"
            /\ inventory'[unblinded_token] = "available") =>
               /\ lastop'.method = "reset"
               /\ unblinded_token \in Members(groups'[lastop'.group].value)

C13_ResetReturnsUnreportedTokens == [][C13_Step]_vars

\* A reset of a group one of whose tokens had been marked spent through
\* another group: that token stays spent, another is available again.
C13_Witness ==
    /\ lastop.method = "reset"
    /\ \E spent_token, other \in Members(groups[lastop.group].value) :
           /\ spent_token \in retired
           /\ inventory[spent_token] = "spent"
           /\ other \notin retired
           /\ inventory[other] = "available"

(***************************************************************************)
(* C14.  A terminal method called on a PassGroup that has already had a    *)
(* terminal method called on it is rejected, and nothing is reported to    *)
(* the inventory by the second call.                                       *)
(***************************************************************************)
C14_SecondTerminalRejected ==
    (lastop.method \in TerminalMethods /\ lastop.terminal_before > 0) =>
        /\ lastop.raised # NoException
        /\ lastop.reports = <<>>

(***************************************************************************)
(* C15, as the claim states it: while only get, split and expand have been *)
(* called, no token is a member of two distinct live groups.               *)
(***************************************************************************)
C15_LiveGroupsDisjoint ==
    TerminalCalls = 0 =>
        \A g, h \in DOMAIN groups :
            (g # h /\ Live(g) /\ Live(h)) =>
                Members(groups[g].value) \cap Members(groups[h].value) = {}

\* One group was derived from the other by split and expand, or both from a
\* common group.
Related(g, h) ==
    \/ g \in groups[h].from
    \/ h \in groups[g].from
    \/ groups[g].from \cap groups[h].from # {}

(***************************************************************************)
(* C15.  While only get, split and expand have been called, two distinct   *)
(* live groups have a token in common only if one was derived from the     *)
(* other, or both from a common group, by split and expand, and they are   *)
(* not the two groups one split returned: groups drawn by separate gets    *)
(* share no token, and the two groups of a split share no token.           *)
(***************************************************************************)
C15_OnlyDerivedGroupsOverlap ==
    TerminalCalls = 0 =>
        \A g, h \in DOMAIN groups :
            (/\ g # h
             /\ Members(groups[g].value) \cap Members(groups[h].value) # {}) =>
                /\ Related(g, h)
                /\ groups[g].sibling # h

\* A group split into two groups that both have tokens.
C15_Witness ==
    /\ TerminalCalls = 0
    /\ \E g, h \in DOMAIN groups :
           /\ groups[g].sibling = h
           /\ Members(groups[g].value) # {}
           /\ Members(groups[h].value) # {}
           /\ \E parent \in groups[g].from :
                  Members(groups[parent].value) =
                      Members(groups[g].value) \cup Members(groups[h].value)

(***************************************************************************)
(* C16.  get(message, n) draws exactly n tokens from the inventory and     *)
(* returns a group of their passes, bound to message.  When the inventory  *)
(* cannot supply n tokens the call raises, returns no group, whole or      *)
(* partial, and draws nothing.                                             *)
(***************************************************************************)
C16_Step ==
    lastop'.method = "get" =>
        LET n == lastop'.count
            drawn == {unblinded_token \in Tokens :
                         /\ inventory[unblinded_token] = "available"
                         /\ inventory'[unblinded_token] = "in-use"}
        IN  IF Cardinality(Available(inventory)) < n
            THEN /\ lastop'.raised = InsufficientTokens
                 /\ lastop'.created = <<>>
                 /\ groups' = groups
                 /\ inventory' = inventory
            ELSE /\ lastop'.raised = NoException
                 /\ Cardinality(drawn) = n
                 /\ \A unblinded_token \in Tokens \ drawn :
                        inventory'[unblinded_token] = inventory[unblinded_token]
                 /\ Len(groups') = Len(groups) + 1
                 /\ SubSeq(groups', 1, Len(groups)) = groups
                 /\ LET new == groups'[Len(groups')].value
                    IN  /\ new.message = lastop'.message
                        /\ Len(new.tokens) = n
                        /\ Members(new) = drawn
                        /\ \A i \in DOMAIN new.tokens :
                               BoundPair(new.tokens[i], lastop'.message)

C16_GetDrawsAllOrNothing == [][C16_Step]_vars

\* A get for more tokens than are available, some being available.
C16_Witness ==
    /\ lastop.method = "get"
    /\ lastop.raised = InsufficientTokens
    /\ Available(inventory) # {}
    /\ lastop.count > Cardinality(Available(inventory))

(***************************************************************************)
(* C17.  split(select_indices) returns two groups with the message and the *)
(* factory of the original whose pairs partition the original's: the first *)
(* has the pairs at the selected positions, the second the others, each in *)
(* the original order, and together they hold every pair as many times as  *)
(* the original; an index beyond the end selects nothing.                  *)
(***************************************************************************)
\* How many of the positions 1..p of a list are selected (counted from 0).
Rank(select_indices, p) ==
    Cardinality({q \in 1..p : (q - 1) \in select_indices})

Count(xs, x) == Cardinality({i \in DOMAIN xs : xs[i] = x})

C17_SplitPartitions ==
    lastop.method = "split" =>
        LET original == groups[lastop.group].value
            first == groups[lastop.created[1]].value
            second == groups[lastop.created[2]].value
            size == Len(original.tokens)
        IN  /\ first.message = original.message
            /\ second.message = original.message
            /\ first.factory = original.factory
            /\ second.factory = original.factory
            /\ Len(first.tokens) = Rank(lastop.select_indices, size)
            /\ Len(second.tokens) = size - Rank(lastop.select_indices, size)
            /\ \A p \in 1..size :
                   IF (p - 1) \in lastop.select_indices
                   THEN first.tokens[Rank(lastop.select_indices, p)] =
                            original.tokens[p]
                   ELSE second.tokens[p - Rank(lastop.select_indices, p)] =
                            original.tokens[p]
            /\ \A pair \in Range(original.tokens) \cup Range(first.tokens)
                               \cup Range(second.tokens) :
                   Count(first.tokens, pair) + Count(second.tokens, pair) =
                       Count(original.tokens, pair)

\* A split of a group of three pairs by an index within it and an index
\* beyond its end.
C17_Witness ==
    /\ lastop.method = "split"
    /\ Len(groups[lastop.group].value.tokens) = 3
    /\ \E inside, beyond \in lastop.select_indices :
           /\ inside < 3
           /\ beyond >= 3
    /\ Len(groups[lastop.created[1]].value.tokens) = 1
    /\ Len(groups[lastop.created[2]].value.tokens) = 2

(***************************************************************************)
(* C18.  expand(k) returns a new group: the pairs of the original, in      *)
(* order, followed by k freshly drawn pairs for the same message.  The     *)
(* original group has the members it had.                                  *)
(***************************************************************************)
C18_Step ==
    (lastop'.method = "expand" /\ lastop'.raised = NoException) =>
        /\ Len(groups') = Len(groups) + 1
        /\ \A h \in DOMAIN groups : groups'[h].value = groups[h].value
        /\ LET original == groups[lastop'.group].value
               new == groups'[Len(groups')].value
               size == Len(original.tokens)
           IN  /\ new.message = original.message
               /\ Len(new.tokens) = size + lastop'.count
               /\ SubSeq(new.tokens, 1, size) = original.tokens
               /\ \A i, j \in (size + 1)..Len(new.tokens) :
                      /\ BoundPair(new.tokens[i], original.message)
                      /\ inventory[new.tokens[i][1]] = "available"
                      /\ inventory'[new.tokens[i][1]] = "in-use"
                      /\ i # j => new.tokens[i][1] # new.tokens[j][1]

C18_ExpandAppendsFresh == [][C18_Step]_vars

\* A group of one pair expanded by two.
C18_Witness ==
    /\ lastop.method = "expand"
    /\ lastop.raised = NoException
    /\ lastop.count = 2
    /\ Len(groups[lastop.group].value.tokens) = 1
    /\ Len(groups[lastop.created[1]].value.tokens) = 3

(***************************************************************************)
(* C19.  A report made through SpendingController.mark_spent, mark_invalid *)
(* or reset does not fail, whatever state the inventory holds the tokens   *)
(* in; and the same report made a second time leaves the inventory as the  *)
(* first left it.                                                          *)
(***************************************************************************)
C19_Step ==
    /\ lastop'.method \in TerminalMethods => lastop'.raised = NoException
    /\ (/\ lastop.method \in TerminalMethods
        /\ lastop'.method = lastop.method
        /\ lastop'.reports = lastop.reports
        /\ groups' # groups) =>
           inventory' = inventory

C19_DuplicateReportIsHarmless == [][C19_Step]_vars

\* The tokens of a group reported spent for the second time.
C19_Witness ==
    /\ lastop.method = "mark_spent"
    /\ lastop.terminal_before = 1
    /\ Len(lastop.reports) = 1
    /\ lastop.reports[1].unblinded_tokens # <<>>
    /\ \A unblinded_token \in Members(groups[lastop.group].value) :
           inventory[unblinded_token] = "spent"
    /\ \A g \in DOMAIN groups : g # lastop.group => groups[g].terminal = 0

(***************************************************************************)
(* C20.  The number of passes an immutable allocation requires depends on  *)
(* allocated_size and the bytes a pass pays for only, not on how many      *)
(* share numbers are named: it is ceil(allocated_size / BYTES_PER_PASS),   *)
(* and an allocation of the shares {0, 1, 2} of 2,500,000 bytes at         *)
(* 1,000,000 bytes a pass requires 3 passes.                               *)
(***************************************************************************)
C20_Required(allocated_size) ==
    (allocated_size + BYTES_PER_PASS - 1) \div BYTES_PER_PASS

C20_SharesDoNotMultiply ==
    /\ required_passes(1000000, {0, 1, 2}, 2500000) = 3
    /\ last.op = "remote_allocate_buckets" =>
           LET valid == GenuineCount(AllocateMessage(last), last.passes)
               required == C20_Required(last.allocated_size)
           IN  /\ valid >= required => last.raised = NoException
               /\ valid < required =>
                      last.raised = MorePassesRequired(valid, required)

\* Two shares of three bytes each allocated with the two passes three bytes
\* require.
C20_Witness ==
    /\ last.op = "remote_allocate_buckets"
    /\ Cardinality(last.sharenums) = 2
    /\ last.allocated_size = 3
    /\ GenuineCount(AllocateMessage(last), last.passes) = 2
    /\ last.raised = NoException
    /\ Len(last.forwarded) = 1

\* C21: for every size >= 0 and bytes_per_pass > 0 the required pass count
\* is ceil(size / bytes_per_pass), the least number of passes whose bytes
\* cover the size: it is 0 at size 0, never negative, and no smaller size
\* requires more.
C21_RequiredIsCeiling ==
    calc.fn = "required_passes" =>
        /\ calc.result \in Nat
        /\ calc.result * calc.bytes_per_pass >= calc.allocated_size
        /\ \A fewer \in 0..(calc.result - 1) :
               fewer * calc.bytes_per_pass < calc.allocated_size
        /\ calc.allocated_size = 0 => calc.result = 0
        /\ \A smaller \in 0..calc.allocated_size :
               required_passes(calc.bytes_per_pass, calc.sharenums, smaller)
                   <= calc.result

\* A size that is not a multiple of bytes_per_pass: the count is rounded up.
C21_Witness ==
    /\ calc.fn = "required_passes"
    /\ calc.bytes_per_pass = 3
    /\ calc.allocated_size = 7
    /\ calc.result = 3

\* The shares of the vectors that have a fragment to write.
Written(tw_vectors) ==
    {sharenum \in DOMAIN tw_vectors : Len(tw_vectors[sharenum]) > 0}

\* offset + len(fragment) of every fragment of the given shares.
Extents(tw_vectors, sharenums) ==
    UNION {{tw_vectors[n][i].offset + tw_vectors[n][i].len :
               i \in DOMAIN tw_vectors[n]} : n \in sharenums}

\* What the sum over the fragments of all shares would come to.
RECURSIVE SumExtents(_)
SumExtents(data_vector) ==
    IF data_vector = <<>> THEN 0
    ELSE Head(data_vector).offset + Head(data_vector).len
             + SumExtents(Tail(data_vector))

\* C22: a mutable write is charged for the shares with a non-empty data
\* vector and for the single largest offset + len(fragment) over all
\* fragments of those shares: for the maximum, not a sum, and a share with
\* an empty data vector contributes nothing.
C22_ChargesLargestWrite ==
    (/\ calc.fn = "check_pass_quantity_for_mutable_write"
     /\ Written(calc.tw_vectors) # {}) =>
        LET written == Written(calc.tw_vectors)
            largest == Max(Extents(calc.tw_vectors, written))
            required == required_passes(BYTES_PER_PASS, written, largest)
        IN  /\ calc.sharenums = written
            /\ calc.allocated_size = Returns(largest)
            /\ calc.result =
                   IF calc.valid_count < required
                   THEN MorePassesRequired(calc.valid_count, required)
                   ELSE NoException

\* Two written shares with two fragments each: the passes offered pay for
\* the largest write and would not pay for the sum over shares or fragments.
C22_Witness ==
    /\ calc.fn = "check_pass_quantity_for_mutable_write"
    /\ Written(calc.tw_vectors) = Sharenums
    /\ \A n \in Sharenums : Len(calc.tw_vectors[n]) = 2
    /\ calc.result = NoException
    /\ \E n \in Sharenums :
           calc.valid_count
               < required_passes(BYTES_PER_PASS, Sharenums,
                                 SumExtents(calc.tw_vectors[n]))
    /\ calc.valid_count > 0

\* The positions of passes that hold a pass valid for message.
ValidPositions(message, passes) ==
    {i \in DOMAIN passes : Genuine(message, passes[i])}

\* C23: the list the filter returns is a subsequence of the passes given, in
\* their order, holding exactly the entries that are valid by themselves;
\* the filter applied to its own result returns the same list.
C23_FilterKeepsValidInOrder ==
    calc.fn = "_validate_passes" =>
        LET valid == ValidPositions(calc.message, calc.passes)
            place(i) == Cardinality({j \in valid : j <= i})
        IN  /\ ~ calc.result.raised
            /\ Len(calc.result.value) = Cardinality(valid)
            /\ \A i \in valid : calc.result.value[place(i)] = calc.passes[i]
            /\ calc.again = calc.result

\* Two different valid passes with an invalid one between them, the later
\* issued one first.
C23_Witness ==
    /\ calc.fn = "_validate_passes"
    /\ calc.message = <<"allocate_buckets", "si1">>
    /\ Len(calc.passes) = 3
    /\ calc.passes[1] = MakePass(SigningKey, 2, calc.message)
    /\ ~ Genuine(calc.message, calc.passes[2])
    /\ calc.passes[3] = MakePass(SigningKey, 1, calc.message)
    /\ calc.result.value = <<calc.passes[1], calc.passes[3]>>

\* C30: has_active_lease is true if and only if some lease of the storage
\* index expires strictly after now, that is, the latest expiration is
\* later than now; with a lease expiring exactly at now, only expired
\* leases or no lease at all there is no active lease, and a write made at
\* that instant requires passes.
C30_ActiveMeansStrictlyLater ==
    calc.fn = "has_active_lease" =>
        LET expirations == calc.storage_leases[calc.storage_index]
            latest == Max(expirations)
        IN  /\ calc.result = (expirations # {} /\ latest > calc.now)
            /\ expirations = {} => ~ calc.result
            /\ (expirations # {} /\ latest = calc.now) => ~ calc.result
            /\ (expirations # {} /\ latest < calc.now) => ~ calc.result
            /\ ~ calc.result =>
                   calc.write.raised
                       = MorePassesRequired(0, RequiredForWrite(CalcWrite))
            /\ calc.result => calc.write.raised = NoException

\* The storage index has an expired lease and one that expires at this very
\* instant, the other storage index has a lease that is still running, and
\* the write is refused for want of a pass.
C30_Witness ==
    /\ calc.fn = "has_active_lease"
    /\ calc.now = 1
    /\ calc.storage_leases[calc.storage_index] = {0, 1}
    /\ \E other \in StorageIndexes : 2 \in calc.storage_leases[other]
    /\ ~ calc.result
    /\ calc.write.raised = MorePassesRequired(0, 1)

\* The calls the gate makes no charge for.
PassThroughOps ==
    {"remote_get_version", "remote_get_buckets", "remote_slot_readv",
     "remote_advise_corrupt_share"}

\* The method of the wrapped server that answers the gate's method.
OriginalMethod(op) ==
    CASE op = "remote_get_version" -> "get_version"
      [] op = "remote_get_buckets" -> "get_buckets"
      [] op = "remote_slot_readv" -> "slot_readv"
      [] op = "remote_advise_corrupt_share" -> "advise_corrupt_share"

\* C24: get version, get buckets, slot readv and advise corrupt share are
\* forwarded to the wrapped server whatever the state of the leases and the
\* shares: they take no passes, validate nothing, never fail with
\* MorePassesRequired (or otherwise in the gate), and make exactly one call
\* on the wrapped server with the arguments they were given.
C24_PassThrough ==
    last.op \in PassThroughOps =>
        /\ last.passes = <<>>
        /\ last.validations = <<>>
        /\ ~ last.lease_checked
        /\ last.raised = NoException
        /\ Len(last.forwarded) = 1
        /\ last.forwarded[1].method = OriginalMethod(last.op)
        /\ last.forwarded[1].storage_index = last.storage_index
        /\ last.forwarded[1].sharenums = last.sharenums
        /\ ~ last.forwarded[1].renew_leases

\* A bucket read at a storage index that holds shares and whose lease has
\* run out.
C24_Witness ==
    /\ last.op = "remote_get_buckets"
    /\ last.storage_index \in shares
    /\ leases[last.storage_index] # {}
    /\ ~ ActiveLease(last.storage_index)
    /\ Len(last.forwarded) = 1

\* A call of recover is made in this step.
RecoverCalled == Len(invocations') = Len(invocations) + 1

\* C25: whenever the stage is anything other than inactive, recover raises
\* AlreadyRecovering and does nothing else: no downloader is called, no
\* statement is executed on the cursor and the state stays as it is.
C25_Step ==
    (RecoverCalled /\ _state.stage # "inactive") =>
        /\ invocations'[Len(invocations')].pc = "raised"
        /\ downloads' = downloads
        /\ cursor' = cursor
        /\ _state' = _state

C25_RaisesAlreadyRecovering == [][C25_Step]_vars

\* recover is refused after an import that failed half way: the one
\* statement executed is the first invocation's.
C25_Witness ==
    /\ Len(invocations) = 2
    /\ invocations[1].pc = "returned"
    /\ invocations[2].pc = "raised"
    /\ invocations[2].found = "import_failed"
    /\ downloads = 1
    /\ cursor = <<"s1">>
    /\ _state = RecoveryState("import_failed", "execute")

\* The stages a recovery ends in.
Ended == {"succeeded", "download_failed", "import_failed"}

\* C26: succeeded, download_failed and import_failed are absorbing.  A
\* recover call made in one of them raises and changes neither the stage
\* nor failure_reason, nor calls a downloader; no invocation begun in one of
\* them ever gets to await a download; and once no earlier invocation is
\* still awaiting its download, nothing changes the state again.
C26_Step ==
    /\ (RecoverCalled /\ _state.stage \in Ended) =>
           /\ _state' = _state
           /\ downloads' = downloads
           /\ invocations'[Len(invocations')].pc = "raised"
    /\ \A i \in DOMAIN invocations' :
           invocations'[i].found \in Ended => invocations'[i].pc = "raised"
    /\ (/\ _state.stage \in Ended
        /\ \A i \in DOMAIN invocations : invocations[i].pc # "awaiting") =>
           _state' = _state

C26_EndedStagesAbsorbing == [][C26_Step]_vars

\* recover called after a download has failed: the stage and the reason of
\* the failure are as the first invocation left them.
C26_Witness ==
    /\ Len(invocations) = 2
    /\ invocations[1].pc = "returned"
    /\ invocations[2].pc = "raised"
    /\ invocations[2].found = "download_failed"
    /\ _state = RecoveryState("download_failed", "download error 2")
    /\ downloads = 1

\* The numbers add has been called with so far.
EverAdded == {added[i] : i \in DOMAIN added}

\* C27: get(prn) raises KeyError when prn was never added to the store, and
\* returns a PaymentReference whose number is prn when prn was added before,
\* whatever other add calls were made before or after that one.
C27_GetFindsWhatWasAdded ==
    lastpay.method = "get" =>
        IF lastpay.prn \in EverAdded
        THEN /\ lastpay.raised = NoException
             /\ Len(lastpay.value) = 1
             /\ lastpay.value[1].number = lastpay.prn
        ELSE /\ lastpay.raised = KeyError(lastpay.prn)
             /\ lastpay.value = <<>>

\* The number asked for was added first, and two others after it.
C27_Witness ==
    /\ lastpay.method = "get"
    /\ Len(added) = 3
    /\ Cardinality(EverAdded) = 3
    /\ lastpay.prn = added[1]
    /\ lastpay.raised = NoException
    /\ lastpay.value = <<PaymentReference(added[1])>>

\* C28: add is idempotent.  Adding a number that was added before leaves
\* the store as it was, so that list() reports one reference for each
\* distinct number added and no other, and get returns the single reference
\* of its number.
C28_Step ==
    /\ (lastpay'.method = "add" /\ Len(added') = Len(added) + 1
        /\ lastpay'.prn \in EverAdded) => store' = store
    /\ lastpay'.method = "list" =>
           /\ lastpay'.raised = NoException
           /\ Len(lastpay'.value) = Cardinality(EverAdded)
           /\ {lastpay'.value[i].number : i \in DOMAIN lastpay'.value}
                  = EverAdded
    /\ (lastpay'.method = "get" /\ lastpay'.prn \in EverAdded) =>
           lastpay'.value = <<PaymentReference(lastpay'.prn)>>

C28_AddIsIdempotent == [][C28_Step]_vars

\* One number added three times and another once: two references listed.
C28_Witness ==
    /\ lastpay.method = "list"
    /\ Len(added) = 4
    /\ Cardinality(EverAdded) = 2
    /\ \E i, j, k \in DOMAIN added :
           i < j /\ j < k /\ added[i] = added[j] /\ added[j] = added[k]
    /\ Len(lastpay.value) = 2

\* A renewal is made in this step.
Swept == sweep = NoSweep /\ sweep' # NoSweep

\* The shares the renewal was about: those a server stores at a storage
\* index visited.
SharesVisited ==
    {place \in Servers \X sweep'.storage_indexes :
        buckets[place[1]][place[2]] # NoShares}

\* The time the lease of the shares had left before the renewal, and has
\* left after it.
RemainingBefore(place) == buckets[place[1]][place[2]] - clock
RemainingAfter(place) == buckets'[place[1]][place[2]] - clock'

\* The shares whose lease had no more than min_lease_remaining left were
\* renewed through add_lease.
RenewedWhereDue ==
    \A place \in SharesVisited :
        RemainingBefore(place) <= sweep'.min_lease_remaining =>
            /\ place[2] \in sweep'.renewed[place[1]]
            /\ RemainingAfter(place) = LeaseTerm

\* C29 as stated: after renew_leases, or the operation of
\* maintain_leases_from_root, completes, every share a server stores at a
\* visited storage index has a lease with at least min_lease_remaining left,
\* and the shares whose lease had no more than that left were renewed.
C29_OriginalStep ==
    Swept =>
        /\ \A place \in SharesVisited :
               RemainingAfter(place) >= sweep'.min_lease_remaining
        /\ RenewedWhereDue

C29_Step ==
    Swept =>
        /\ sweep'.min_lease_remaining <= LeaseTerm =>
               \A place \in SharesVisited :
                   RemainingAfter(place) >= sweep'.min_lease_remaining
        /\ RenewedWhereDue

C31_Step ==
    (/\ last.op = "none"
     /\ last'.op = "remote_slot_testv_and_readv_and_writev"
     /\ ContainsWrite(last'.tw_vectors)
     /\ ~ ActiveLease(last'.storage_index)
     /\ last'.passes = <<>>) =>
        last'.raised = LeaseRenewalRequired

C31_FailsWithLeaseRenewalRequired == [][C31_Step]_vars

\* C32: the computation of the largest position written fails (ValueError,
\* from max() of an empty list) when no share of the vectors has a data
\* fragment, and the gate never runs it on such vectors: whenever the gate
\* decides that a request has writes the set of written shares is not empty
\* and the computation succeeds.
C32_NoWritesNeverReachSize ==
    calc.fn = "check_pass_quantity_for_mutable_write" =>
        /\ Written(calc.tw_vectors) = {} =>
               /\ calc.allocated_size.raised
               /\ calc.result = ValueError
               /\ ~ calc.decided.lease_checked
               /\ calc.decided.validations = <<>>
               /\ calc.decided.raised = NoException
        /\ calc.decided.lease_checked =>
               /\ calc.sharenums # {}
               /\ ~ calc.allocated_size.raised
               /\ calc.decided.raised # ValueError

\* Vectors with no data fragment in any share: the size cannot be computed,
\* and the gate has not tried to.
C32_Witness ==
    /\ calc.fn = "check_pass_quantity_for_mutable_write"
    /\ calc.tw_vectors = NoVectors
    /\ calc.result = ValueError
    /\ calc.decided.raised = NoException

\* The invocations whose download ends in this step.
Completing ==
    {i \in DOMAIN invocations :
        invocations[i].pc = "awaiting" /\ invocations'[i].pc = "returned"}

\* The position of the first statement the cursor rejects, or one past the
\* last statement.
FirstBad(lines) ==
    IF \E k \in DOMAIN lines : lines[k] = "bad"
    THEN CHOOSE k \in DOMAIN lines :
             lines[k] = "bad" /\ \A j \in 1..(k - 1) : lines[j] # "bad"
    ELSE Len(lines) + 1

\* C33: recover executes statements on the cursor only after the download
\* has completed without error.  When the downloader raises, the stage
\* becomes download_failed with the text of the exception as failure_reason
\* and the cursor is not used; when a statement fails, the stage becomes
\* import_failed with a reason and no later statement is executed; the
\* stage becomes succeeded only when every statement has been executed.
C33_Step ==
    /\ cursor' # cursor =>
           \E i \in Completing : invocations'[i].got.kind = "replica"
    /\ \A i \in Completing :
           LET got == invocations'[i].got
               lines == got.replica.lines
           IN  /\ got.kind = "error" =>
                      /\ _state' = RecoveryState("download_failed", got.error)
                      /\ cursor' = cursor
               /\ (got.kind = "replica" /\ FirstBad(lines) <= Len(lines)) =>
                      /\ _state'.stage = "import_failed"
                      /\ _state'.failure_reason # None
                      /\ cursor' = cursor \o SubSeq(lines, 1, FirstBad(lines) - 1)
               /\ _state'.stage = "succeeded" =>
                      /\ got.kind = "replica"
                      /\ got.replica.ascii
                      /\ cursor' = cursor \o lines

C33_ImportFollowsDownload == [][C33_Step]_vars

\* The second of two statements is rejected: the first has been executed,
\* the import has failed.
C33_Witness ==
    /\ Len(invocations) = 1
    /\ invocations[1].got.kind = "replica"
    /\ invocations[1].got.replica.lines = <<"s1", "bad">>
    /\ cursor = <<"s1">>
    /\ _state = RecoveryState("import_failed", "execute")

\* The token is a member of a group no terminal method has been called on.
HeldLive(unblinded_token) ==
    \E g \in DOMAIN groups :
        Live(g) /\ unblinded_token \in Members(groups[g].value)

\* C34: after any sequence of get, split, expand, mark_spent, mark_invalid
\* and reset, failed draws included, every token is in exactly one of the
\* states available in the inventory, held by a live group, spent, invalid:
\* none is lost and none is in two states.
C34_ExactlyOneState ==
    \A unblinded_token \in Tokens :
        Cardinality({state \in {"available", "held", "spent", "invalid"} :
                        IF state = "held" THEN HeldLive(unblinded_token)
                        ELSE inventory[unblinded_token] = state}) = 1

\* C35: whenever the gate performs an operation that needed authorization,
\* an immutable allocation or a mutable write forwarded with the creation
\* of a lease, at least one pass valid for the operation's message was
\* presented in the call; no shape of request, a zero-length fragment or an
\* allocated_size of 0 included, obtains an allocation or a fresh lease with
\* no valid pass.
C35_NothingForNoPass ==
    /\ (/\ last.op = "remote_allocate_buckets"
        /\ last.forwarded # <<>>) =>
           GenuineCount(AllocateMessage(last), last.passes) >= 1
    /\ (/\ last.op = "remote_slot_testv_and_readv_and_writev"
        /\ last.forwarded # <<>>
        /\ last.forwarded[1].renew_leases) =>
           GenuineCount(SlotMessage(last), last.passes) >= 1

\* C36: within one call of the gate a valid pass which appears more than
\* once in the list supplied adds at most one to the count of valid passes
\* which is compared against the required count: the count is the number of
\* distinct valid passes.
C36_DuplicateCountsOnce ==
    \A i \in DOMAIN last.validations :
        Len(last.validations[i].valid_passes) =
            Cardinality(Range(last.validations[i].valid_passes))

\* C37: whenever SpendingController.get, or PassGroup.expand which calls
\* it, returns no group, because the draw fails or because the conversion
\* or the logging of the event raises after the draw, the available pool of
\* the inventory is as it was before the call and no token is left handed
\* out without a group that holds it; and a failed expand leaves the
\* members of the original group as they were.
C37_Step ==
    (lastop'.method \in {"get", "expand"} /\ lastop'.raised # NoException) =>
        /\ Available(inventory') = Available(inventory)
        /\ \A unblinded_token \in Tokens :
               inventory'[unblinded_token] = "in-use" =>
                   \E g \in DOMAIN groups' :
                       unblinded_token \in Members(groups'[g].value)
        /\ groups' = groups

C37_FailedGetDrawsNothing == [][C37_Step]_vars

\* C38: every group SpendingController.get(message, n) returns has exactly
\* n pairs, its passes and its unblinded_tokens are of one length and in
\* the order of the draw, and every token drawn for the call is a member of
\* the group, whatever the length of the list the conversion returns.
C38_GroupHoldsTheDraw ==
    (lastop.method = "get" /\ lastop.raised = NoException) =>
        LET new == groups[lastop.created[1]].value
        IN  /\ Len(new.tokens) = lastop.count
            /\ Len(PassGroup_passes(new)) = Len(PassGroup_unblinded_tokens(new))
            /\ PassGroup_unblinded_tokens(new) = lastop.drawn
            /\ Range(lastop.drawn) \subseteq Members(new)

Recovering ==
    \E i \in DOMAIN invocations :
        invocations[i].found = "inactive" /\ invocations[i].pc = "awaiting"

\* Every invocation which found the stage inactive has finished, and the
\* stage is succeeded, download_failed or import_failed.
Recovered ==
    /\ \A i \in DOMAIN invocations :
           invocations[i].found = "inactive" => invocations[i].pc = "returned"
    /\ _state.stage \in Ended

\* C40: when the awaitable of the downloader completes, by returning or by
\* raising, and the downloader reports forward progress only, an invocation
\* of recover which found the stage inactive eventually leaves the stage
\* succeeded, download_failed or import_failed; it does not finish with the
\* stage started, downloading or importing; and the stage is never inactive
\* again once recover has been called.
C40_Step ==
    /\ Completing # {} => _state'.stage \in Ended
    /\ _state.stage # "inactive" => _state'.stage # "inactive"

C40_RecoveryEnds ==
    /\ [][C40_Step]_vars
    /\ [](invocations # <<>> => _state.stage # "inactive")
    /\ Recovering ~> Recovered

\* The downloader has reported a stage and its awaitable has then raised:
\* the download has failed.
C40_Witness ==
    /\ Len(invocations) = 1
    /\ invocations[1].found = "inactive"
    /\ invocations[1].reports = 1
    /\ invocations[1].pc = "returned"
    /\ invocations[1].got.kind = "error"
    /\ _state.stage = "download_failed"

====
